---- MODULE Spec2Model ----
(***************************************************************************)
(* Hexagonal terrain generation of hex-game-2025.                          *)
(*                                                                         *)
(* Three stitchers live in the repository:                                 *)
(*   - the active generator  (HexGenerator + HexUtils + PerturbationUtils),*)
(*     closed-form neighbours, no bounds check, no corner dedup;           *)
(*   - HexRenderer "basic"   (grid lookup through hexGenerator.js);        *)
(*   - HexRenderer "atlas"   (same stitching, texture-atlas indices).      *)
(*                                                                         *)
(* Numbers.  Lengths are exact: hexSize and hexGap are integers in tenths  *)
(* of a unit, an x coordinate is an integer in twentieths of a unit, and a *)
(* z coordinate is a pair <<s, r>> that stands for (s*sqrt(3) + r)/20.     *)
(* sqrt(3) is irrational, so two z coordinates are equal exactly when the  *)
(* pairs are.  A horizontally perturbed coordinate carries its jitter as a *)
(* last component: x is <<x, jx>>, z is <<s, r, jz>>.  Heights are         *)
(* integers in hundredths (the code rounds them to two decimals).  Noise   *)
(* values are quantised to 0 .. NoiseLevels-1, standing for [0,1].         *)
(***************************************************************************)
EXTENDS Integers, Sequences, FiniteSets, TLC

VARIABLES
    gen,        \* the active HexGenerator: parameters and the seeds its noise fields drew
    pc,         \* position of HexGenerator.renderGrid: "render" | "done"
    nextCell,   \* row-major index of the next cell of renderGrid's loop
    hexes,      \* hex objects built so far by renderGrid, in loop order
    meshes,     \* geometry returned by createHexGeometry for each built hex
    firstRun,   \* output of the previous generation run (<<>> when there is none)
    rgen,       \* hexGenerator.js generator behind the HexRenderer: parameters, seed, input
    rpc,        \* position of HexRenderer.renderGrid: "render" | "done"
    rnext,      \* index of the next hex of HexRenderer.renderGrid's forEach
    hexGrid,    \* the grid HexGenerator.generateGrid returned
    rmeshes,    \* geometry returned by HexRenderer.createHexGeometry for each hex
    cq,         \* a neighbour query: grid size, coordinates, direction
    cres,       \* what the two getNeighborCoords implementations returned for cq
    noise,      \* a PerlinNoise instance: seed, gradients cache, memory cache
    ncalls,     \* the get calls made on the instance so far: arguments and value returned
    dbg,        \* a HexDebugger with the meshes it raycasts against
    app         \* a HexGame: params, scene, hexMeshes and the position of init / updateGrid

genVars == <<gen, pc, nextCell, hexes, meshes, firstRun>>
rndVars == <<rgen, rpc, rnext, hexGrid, rmeshes>>
crdVars == <<cq, cres>>
nseVars == <<noise, ncalls>>
vars == <<gen, pc, nextCell, hexes, meshes, firstRun,
          rgen, rpc, rnext, hexGrid, rmeshes, cq, cres, noise, ncalls, dbg, app>>

(***************************************************************************)
(* Bounds of the model.                                                    *)
(***************************************************************************)
MaxGrid == 3

NoiseLevels == 5

(***************************************************************************)
(* Program constants.                                                      *)
(***************************************************************************)
DefaultGridSize == 16
\* the default hexSize 1.0, in tenths
DefaultHexSize == 10
BiomeCount == 4

GridSizes == 1 .. MaxGrid
\* hexSize and hexGap in tenths: the defaults 1.0 and 0.1, and a smaller one of each
HexSizes == {5, 10}
HexGaps == {0, 1}
\* sample values of Math.random() * 10000
Seeds == {0, 1}

Null == <<>>

(***************************************************************************)
(* Direction algebra.                                                      *)
(***************************************************************************)
directions == <<"N", "NE", "SE", "S", "SW", "NW">>
Directions == {directions[i] : i \in 1 .. 6}

\* the edge map with every edge moved on by one rim vertex
edgeVertexMap_shifted ==
    [d \in Directions |->
        CASE d = "N"  -> <<5, 0>>
          [] d = "NE" -> <<0, 1>>
          [] d = "SE" -> <<1, 2>>
          [] d = "S"  -> <<2, 3>>
          [] d = "SW" -> <<3, 4>>
          [] d = "NW" -> <<4, 5>>]

\* rim vertex indices (0-based, as in the code) of the edge facing a direction
edgeVertexMap ==
    [d \in Directions |->
        CASE d = "N"  -> <<4, 5>>
          [] d = "NE" -> <<5, 0>>
          [] d = "SE" -> <<0, 1>>
          [] d = "S"  -> <<1, 2>>
          [] d = "SW" -> <<2, 3>>
          [] d = "NW" -> <<3, 4>>]

oppositeDirection ==
    [d \in Directions |->
        CASE d = "N"  -> "S"
          [] d = "NE" -> "SW"
          [] d = "SE" -> "NW"
          [] d = "S"  -> "N"
          [] d = "SW" -> "NE"
          [] d = "NW" -> "SE"]

\* a clockwise map whose last entry points at NE
clockwiseDirection_twoIntoNE ==
    [d \in Directions |->
        CASE d = "N"  -> "NE"
          [] d = "NE" -> "SE"
          [] d = "SE" -> "S"
          [] d = "S"  -> "SW"
          [] d = "SW" -> "NW"
          [] d = "NW" -> "NE"]

clockwiseDirection ==
    [d \in Directions |->
        CASE d = "N"  -> "NE"
          [] d = "NE" -> "SE"
          [] d = "SE" -> "S"
          [] d = "S"  -> "SW"
          [] d = "SW" -> "NW"
          [] d = "NW" -> "N"]

skirtDirections == <<"SE", "S", "SW">>

\* JavaScript's remainder: the sign of the result is the sign of the dividend
JsMod(a, n) == IF a >= 0 THEN a % n ELSE -((-a) % n)

InGrid(coords, gridSize) ==
    /\ coords # Null
    /\ coords[1] >= 0 /\ coords[1] < gridSize
    /\ coords[2] >= 0 /\ coords[2] < gridSize

\* getNeighborCoords that applies the even-column offsets to every column
HexUtils_getNeighborCoords_noParity(coords, direction) ==
    LET col == coords[1]
        row == coords[2]
    IN  CASE direction = "N"  -> <<col, row - 1>>
          [] direction = "NE" -> <<col + 1, row - 1>>
          [] direction = "SE" -> <<col + 1, row>>
          [] direction = "S"  -> <<col, row + 1>>
          [] direction = "SW" -> <<col - 1, row>>
          [] direction = "NW" -> <<col - 1, row - 1>>
          [] OTHER -> Null

\* getNeighborCoords whose SE step keeps the row in every column
HexUtils_getNeighborCoords_flatSE(coords, direction) ==
    LET col == coords[1]
        row == coords[2]
        isOddColumn == JsMod(col, 2) = 1
    IN  CASE direction = "N"  -> <<col, row - 1>>
          [] direction = "NE" -> <<col + 1, IF isOddColumn THEN row ELSE row - 1>>
          [] direction = "SE" -> <<col + 1, row>>
          [] direction = "S"  -> <<col, row + 1>>
          [] direction = "SW" -> <<col - 1, IF isOddColumn THEN row + 1 ELSE row>>
          [] direction = "NW" -> <<col - 1, IF isOddColumn THEN row ELSE row - 1>>
          [] OTHER -> Null

\* HexUtils.getNeighborCoords: the switch over the direction, and no bounds check
HexUtils_getNeighborCoords(coords, direction) ==
    LET col == coords[1]
        row == coords[2]
        isOddColumn == JsMod(col, 2) = 1
    IN  CASE direction = "N"  -> <<col, row - 1>>
          [] direction = "NE" -> <<col + 1, IF isOddColumn THEN row ELSE row - 1>>
          [] direction = "SE" -> <<col + 1, IF isOddColumn THEN row + 1 ELSE row>>
          [] direction = "S"  -> <<col, row + 1>>
          [] direction = "SW" -> <<col - 1, IF isOddColumn THEN row + 1 ELSE row>>
          [] direction = "NW" -> <<col - 1, IF isOddColumn THEN row ELSE row - 1>>
          [] OTHER -> Null

\* getNeighborCoords with the offsets of even and odd columns exchanged
HexGenerator_getNeighborCoords_swapped(gridSize, coords, direction) ==
    LET col == coords[1]
        row == coords[2]
        isOddColumn == JsMod(col, 2) = 0
        t == CASE direction = "N"  -> <<col, row - 1>>
               [] direction = "NE" -> <<col + 1, IF isOddColumn THEN row ELSE row - 1>>
               [] direction = "SE" -> <<col + 1, IF isOddColumn THEN row + 1 ELSE row>>
               [] direction = "S"  -> <<col, row + 1>>
               [] direction = "SW" -> <<col - 1, IF isOddColumn THEN row + 1 ELSE row>>
               [] direction = "NW" -> <<col - 1, IF isOddColumn THEN row ELSE row - 1>>
               [] OTHER -> Null
    IN  IF t = Null THEN Null
        ELSE IF t[1] < 0 \/ t[1] >= gridSize \/ t[2] < 0 \/ t[2] >= gridSize
             THEN Null
             ELSE t

\* getNeighborCoords whose bounds check also turns row 0 away
HexGenerator_getNeighborCoords_rowZeroOut(gridSize, coords, direction) ==
    LET col == coords[1]
        row == coords[2]
        isOddColumn == JsMod(col, 2) = 1
        t == CASE direction = "N"  -> <<col, row - 1>>
               [] direction = "NE" -> <<col + 1, IF isOddColumn THEN row ELSE row - 1>>
               [] direction = "SE" -> <<col + 1, IF isOddColumn THEN row + 1 ELSE row>>
               [] direction = "S"  -> <<col, row + 1>>
               [] direction = "SW" -> <<col - 1, IF isOddColumn THEN row + 1 ELSE row>>
               [] direction = "NW" -> <<col - 1, IF isOddColumn THEN row ELSE row - 1>>
               [] OTHER -> Null
    IN  IF t = Null THEN Null
        ELSE IF t[1] < 0 \/ t[1] >= gridSize \/ t[2] <= 0 \/ t[2] >= gridSize
             THEN Null
             ELSE t

\* HexGenerator.getNeighborCoords (hexGenerator.js): its own switch, then the bounds check
HexGenerator_getNeighborCoords(gridSize, coords, direction) ==
    LET col == coords[1]
        row == coords[2]
        isOddColumn == JsMod(col, 2) = 1
        t == CASE direction = "N"  -> <<col, row - 1>>
               [] direction = "NE" -> <<col + 1, IF isOddColumn THEN row ELSE row - 1>>
               [] direction = "SE" -> <<col + 1, IF isOddColumn THEN row + 1 ELSE row>>
               [] direction = "S"  -> <<col, row + 1>>
               [] direction = "SW" -> <<col - 1, IF isOddColumn THEN row + 1 ELSE row>>
               [] direction = "NW" -> <<col - 1, IF isOddColumn THEN row ELSE row - 1>>
               [] OTHER -> Null
    IN  IF t = Null THEN Null
        ELSE IF t[1] < 0 \/ t[1] >= gridSize \/ t[2] < 0 \/ t[2] >= gridSize
             THEN Null
             ELSE t

(***************************************************************************)
(* PerlinNoise and PerturbationUtils.                                      *)
(***************************************************************************)
Abs(a) == IF a < 0 THEN -a ELSE a

\* the largest noise level: level n stands for the value n / NoiseTop
NoiseTop == NoiseLevels - 1

\* PerlinNoise.get of the field seeded `seed`.  The code samples at scaled and shifted
\* coordinates; `site` numbers the scale and shift of the call (one number per call
\* place in PerturbationUtils) and x, z are the unscaled coordinates.  The value is a
\* fixed function of seed, site and coordinates, as the seeded gradient hash makes it.
PerlinNoise_get(seed, site, x, z) ==
    (((seed + 1) * 37 + site * 11 + x * 7 + z[1] * 13 + z[2] * 3
        + (x + z[1] + site) * (x + z[1] + seed)) % 97) % NoiseLevels

\* |a|^1.5 for a = n / NoiseTop, in thousandths
Pow15 ==
    [n \in 0 .. NoiseTop |->
        CHOOSE r \in 0 .. 1000 :
            /\ r * r * NoiseTop * NoiseTop * NoiseTop <= 1000000 * n * n * n
            /\ (r + 1) * (r + 1) * NoiseTop * NoiseTop * NoiseTop > 1000000 * n * n * n]

\* PerturbationUtils.perturbXZ: the jitter of each axis, in units of
\* perturbationScale / (2000 * NoiseTop^2), carried beside the coordinate
perturbXZ(pu, x, z) ==
    LET primaryNoiseX == PerlinNoise_get(pu.noise, 1, x, z)
        primaryNoiseZ == PerlinNoise_get(pu.noise, 2, x, z)
        secondaryNoiseX == PerlinNoise_get(pu.secondaryNoise, 3, x, z)
        secondaryNoiseZ == PerlinNoise_get(pu.secondaryNoise, 4, x, z)
        detailNoiseX == PerlinNoise_get(pu.noise, 5, x, z)
        detailNoiseZ == PerlinNoise_get(pu.noise, 6, x, z)
        combinedNoiseX == 6 * primaryNoiseX + 3 * secondaryNoiseX + 2 * detailNoiseX
        combinedNoiseZ == 6 * primaryNoiseZ + 3 * secondaryNoiseZ + 2 * detailNoiseZ
        finalNoiseX == 85 * combinedNoiseX + 150 * primaryNoiseZ
        finalNoiseZ == 85 * combinedNoiseZ + 150 * primaryNoiseX
        perturbX == (2 * finalNoiseX - 1000 * NoiseTop) * (2 * NoiseTop + secondaryNoiseX)
        perturbZ == (2 * finalNoiseZ - 1000 * NoiseTop) * (2 * NoiseTop + secondaryNoiseZ)
    IN  << <<x, perturbX>>, <<z[1], z[2], perturbZ>> >>

\* PerturbationUtils.perturbY: y (hundredths) plus the jitter sampled at (x, z), rounded
perturbY(pu, x, y, z) ==
    LET primaryNoise == PerlinNoise_get(pu.noise, 7, x, z)
        secondaryNoise == PerlinNoise_get(pu.secondaryNoise, 8, x, z)
        ridgeNoise == 4 * Abs(2 * primaryNoise - NoiseTop)
        valleyNoise == 6 * (NoiseTop - Abs(2 * secondaryNoise - NoiseTop))
        detail == PerlinNoise_get(pu.noise, 9, x, z)
        \* combinedNoise in units of 1 / (100 * NoiseTop)
        combinedNoise == 60 * primaryNoise + 3 * ridgeNoise - 3 * valleyNoise
                            + 40 * secondaryNoise + 20 * detail
        \* (combinedNoise * 2 - 1) * 3.0, in hundredths times NoiseTop
        perturbation == 3 * (2 * combinedNoise - 100 * NoiseTop)
    IN  y + ((2 * perturbation + NoiseTop) \div (2 * NoiseTop))

\* PerturbationUtils.getElevation, in hundredths (terms in ten-thousandths)
getElevation(pu, x, z) ==
    LET primaryNoise == PerlinNoise_get(pu.noise, 10, x, z)
        secondaryNoise == PerlinNoise_get(pu.secondaryNoise, 14, x, z)
        octaves == 8 * primaryNoise + 4 * PerlinNoise_get(pu.noise, 11, x, z)
                    + 2 * PerlinNoise_get(pu.noise, 12, x, z)
                    + PerlinNoise_get(pu.noise, 13, x, z)
        secondaryOctaves == 5 * secondaryNoise
                    + 2 * PerlinNoise_get(pu.secondaryNoise, 15, x, z)
                    + PerlinNoise_get(pu.secondaryNoise, 16, x, z)
        ridgeNoise == 4 * Pow15[Abs(2 * primaryNoise - NoiseTop)]
        valleyBase == NoiseTop - Abs(2 * secondaryNoise - NoiseTop)
        valleyNoise == (6000 * valleyBase * valleyBase) \div (NoiseTop * NoiseTop)
        elevation == (octaves * 26 * 10000) \div (8 * NoiseTop * 75)
        secondaryElevation == (secondaryOctaves * 7 * 10000) \div (5 * NoiseTop * 32)
        finalElevation == (elevation + secondaryElevation + ridgeNoise - valleyNoise) * 12
                            + 2000
    IN  (finalElevation + 50) \div 100

\* PerturbationUtils.getBiomeIndex: Math.floor(elevation * biomeCount)
getBiomeIndex(elevation, biomeCount) == (elevation * biomeCount) \div 100

(***************************************************************************)
(* HexUtils: metrics, closed-form neighbours, rim vertices.                *)
(* A HexUtils object is [gridSize, hexSize, hexGap, perturbUtils].         *)
(***************************************************************************)
\* HexUtils constructor: the fields it stores; its own PerturbationUtils is seeded
\* by two draws of Math.random
HexUtils_new(gridSize, hexSize, hexGap, seed1, seed2) ==
    [gridSize |-> gridSize, hexSize |-> hexSize, hexGap |-> hexGap,
     effectiveSize |-> hexSize - hexGap,
     perturbUtils |-> [noise |-> seed1, secondaryNoise |-> seed2]]

\* cos and sin of the rim angles 0, 60, ..., 300 degrees: cos in halves, sin in
\* multiples of sqrt(3)/2
CosHalf == <<2, 1, -1, -2, -1, 1>>
SinRoot == <<0, 1, 1, 0, -1, -1>>

\* HexUtils.getHexVertex with the height sampled at the rim vertex instead of the centre
getHexVertex_ownHeight(hu, centerX, centerZ, i) ==
    LET x == centerX + hu.effectiveSize * CosHalf[i + 1]
        z == <<centerZ[1] + hu.effectiveSize * SinRoot[i + 1], centerZ[2]>>
        p == perturbXZ(hu.perturbUtils, x, z)
        py == getElevation(hu.perturbUtils, centerX, centerZ)
        perturbedElevation == perturbY(hu.perturbUtils, x, py, z)
    IN  <<p[1], perturbedElevation, p[2]>>

\* HexUtils.getHexVertex: rim vertex i (0-based) of the hex centred at (centerX, centerZ)
getHexVertex(hu, centerX, centerZ, i) ==
    LET x == centerX + hu.effectiveSize * CosHalf[i + 1]
        z == <<centerZ[1] + hu.effectiveSize * SinRoot[i + 1], centerZ[2]>>
        p == perturbXZ(hu.perturbUtils, x, z)
        py == getElevation(hu.perturbUtils, centerX, centerZ)
        perturbedElevation == perturbY(hu.perturbUtils, centerX, py, centerZ)
    IN  <<p[1], perturbedElevation, p[2]>>

\* HexUtils.generateHexVertices: the 6 rim vertices, vertex i at position i + 1
generateHexVertices(hu, centerX, centerZ) ==
    [k \in 1 .. 6 |-> getHexVertex(hu, centerX, centerZ, k - 1)]

\* col * colSpacing, colSpacing = width * 3 / 4 + hexGap, in twentieths
CenterX(effectiveSize, hexGap, col) == col * (3 * effectiveSize + 2 * hexGap)

\* row * rowSpacing + (col % 2) * (rowSpacing / 2), rowSpacing = sqrt(3) * size + hexGap
CenterZ(effectiveSize, hexGap, col, row) ==
    <<(2 * row + JsMod(col, 2)) * effectiveSize, (2 * row + JsMod(col, 2)) * hexGap>>

\* HexUtils.getNeighbor with the odd-column offset of the neighbour's centre left out
HexUtils_getNeighbor_noOffset(hu, hex, direction) ==
    LET neighborCoords == HexUtils_getNeighborCoords(hex.gridCoords, direction)
        neighborCol == neighborCoords[1]
        neighborRow == neighborCoords[2]
        neighborCenterX == CenterX(hu.effectiveSize, hu.hexGap, neighborCol)
        neighborCenterZ == <<2 * neighborRow * hu.effectiveSize, 2 * neighborRow * hu.hexGap>>
        elevation == getElevation(hu.perturbUtils, neighborCenterX, neighborCenterZ)
        perturbedElevation ==
            perturbY(hu.perturbUtils, neighborCenterX, elevation, neighborCenterZ)
    IN  [gridCoords |-> neighborCoords,
         center |-> <<neighborCenterX, perturbedElevation, neighborCenterZ>>,
         vertices |-> generateHexVertices(hu, neighborCenterX, neighborCenterZ),
         elevation |-> perturbedElevation,
         biomeIndex |-> (elevation * 4) \div 100,
         featureIndex |-> 0]

\* HexUtils.getNeighbor: the neighbour hex recomputed from its coordinates.  The
\* coordinates are destructured unchecked: a Null result of getNeighborCoords throws.
HexUtils_getNeighbor(hu, hex, direction) ==
    LET neighborCoords == HexUtils_getNeighborCoords(hex.gridCoords, direction)
        neighborCol == neighborCoords[1]
        neighborRow == neighborCoords[2]
        neighborCenterX == CenterX(hu.effectiveSize, hu.hexGap, neighborCol)
        neighborCenterZ == CenterZ(hu.effectiveSize, hu.hexGap, neighborCol, neighborRow)
        elevation == getElevation(hu.perturbUtils, neighborCenterX, neighborCenterZ)
        perturbedElevation ==
            perturbY(hu.perturbUtils, neighborCenterX, elevation, neighborCenterZ)
    IN  [gridCoords |-> neighborCoords,
         center |-> <<neighborCenterX, perturbedElevation, neighborCenterZ>>,
         vertices |-> generateHexVertices(hu, neighborCenterX, neighborCenterZ),
         elevation |-> perturbedElevation,
         biomeIndex |-> (elevation * 4) \div 100,
         featureIndex |-> 0]

(***************************************************************************)
(* The active HexGenerator.                                                *)
(* A generator is [gridSize, hexSize, hexGap, effectiveSize, hexUtils,     *)
(* perturbUtils]; its own PerturbationUtils draws two more seeds.          *)
(***************************************************************************)
HexGenerator_new(gridSize, hexSize, hexGap, u1, u2, g1, g2) ==
    [gridSize |-> gridSize, hexSize |-> hexSize, hexGap |-> hexGap,
     hexUtils |-> HexUtils_new(gridSize, hexSize, hexGap, u1, u2),
     perturbUtils |-> [noise |-> g1, secondaryNoise |-> g2],
     effectiveSize |-> hexSize - hexGap]

\* a mesh position: x, y, z with the horizontal jitter of each axis (0 when unperturbed)
Pos(x, y, z) == << <<x, 0>>, y, <<z[1], z[2], 0>> >>

NormalUp == <<0, 1, 0>>
NormalSide == <<0, 0, -1>>
\* uv of the cap centre and of rim vertex i: u in quarters, v as 0.5 + k * sqrt(3)/4
UvCenter == <<2, 0>>
UvRim(i) == <<2 + CosHalf[i + 1], SinRoot[i + 1]>>

\* the cap whose last triangle closes on rim vertex 4 instead of rim vertex 5
HexGenerator_cap_lastOpen(hex) ==
    [positions |-> <<Pos(hex.center[1], hex.vertices[1][2], hex.center[3])>>
                        \o hex.vertices,
     normals |-> [k \in 1 .. 7 |-> NormalUp],
     uvs |-> <<UvCenter>> \o [k \in 1 .. 6 |-> UvRim(k - 1)],
     indices |-> <<0, 2, 1,  0, 3, 2,  0, 4, 3,  0, 5, 4,  0, 6, 5,  0, 1, 5>>]

\* the cap of the active generator: centre, then the 6 rim vertices, one triangle each
HexGenerator_cap(hex) ==
    [positions |-> <<Pos(hex.center[1], hex.vertices[1][2], hex.center[3])>>
                        \o hex.vertices,
     normals |-> [k \in 1 .. 7 |-> NormalUp],
     uvs |-> <<UvCenter>> \o [k \in 1 .. 6 |-> UvRim(k - 1)],
     indices |-> <<0, 2, 1,  0, 3, 2,  0, 4, 3,  0, 5, 4,  0, 6, 5,  0, 1, 6>>]

\* one iteration of the skirt loop of the active generator: 2 skirt triangles and the
\* corner triangle of `direction`, appended to the geometry g
HexGenerator_skirt(g, hu, hex, direction) ==
    LET neighborHex == HexUtils_getNeighbor(hu, hex, direction)
        neighborDirection == oppositeDirection[direction]
        v1 == hex.vertices[edgeVertexMap[direction][1] + 1]
        v2 == hex.vertices[edgeVertexMap[direction][2] + 1]
        nv1 == neighborHex.vertices[edgeVertexMap[neighborDirection][1] + 1]
        nv2 == neighborHex.vertices[edgeVertexMap[neighborDirection][2] + 1]
        cwDirection == clockwiseDirection[direction]
        cwNeighborHex == HexUtils_getNeighbor(hu, hex, cwDirection)
        cwNeighborDirection == oppositeDirection[cwDirection]
        cwv2 == cwNeighborHex.vertices[edgeVertexMap[cwNeighborDirection][2] + 1]
        base == Len(g.positions)
    IN  [positions |-> g.positions \o <<v1, v2, nv1,  v1, nv1, nv2,  v2, nv1, cwv2>>,
         indices |-> g.indices \o <<base, base + 1, base + 2,
                                    base + 3, base + 4, base + 5,
                                    base + 6, base + 8, base + 7>>,
         normals |-> g.normals \o [k \in 1 .. 6 |-> NormalSide]
                               \o [k \in 1 .. 3 |-> NormalUp],
         uvs |-> g.uvs \o [k \in 1 .. 9 |-> UvCenter]]

\* HexGenerator.createHexGeometry (active generator): cap, then SE, S, SW in turn
HexGenerator_createHexGeometry(hu, hex) ==
    HexGenerator_skirt(
        HexGenerator_skirt(
            HexGenerator_skirt(HexGenerator_cap(hex), hu, hex, skirtDirections[1]),
            hu, hex, skirtDirections[2]),
        hu, hex, skirtDirections[3])

\* the mesh of a geometry: its arrays, and the index into biomeColors of its material
MeshOf(geometry, colorIndex) ==
    [positions |-> geometry.positions, indices |-> geometry.indices,
     normals |-> geometry.normals, uvs |-> geometry.uvs, colorIndex |-> colorIndex]

\* HexGenerator.createHexMesh (active generator)
HexGenerator_createHexMesh(hu, hex) ==
    MeshOf(HexGenerator_createHexGeometry(hu, hex),
           IF hex.biomeIndex < BiomeCount THEN hex.biomeIndex ELSE 0)

\* the hex object the loop body of HexGenerator.renderGrid builds for (col, row)
HexGenerator_buildHex(g, col, row) ==
    LET centerX == CenterX(g.effectiveSize, g.hexGap, col)
        centerZ == CenterZ(g.effectiveSize, g.hexGap, col, row)
        elevation == getElevation(g.perturbUtils, centerX, centerZ)
        perturbedElevation == perturbY(g.perturbUtils, centerX, elevation, centerZ)
    IN  [gridCoords |-> <<col, row>>,
         center |-> <<centerX, perturbedElevation, centerZ>>,
         vertices |-> generateHexVertices(g.hexUtils, centerX, centerZ),
         elevation |-> perturbedElevation,
         biomeIndex |-> getBiomeIndex(perturbedElevation, BiomeCount),
         featureIndex |-> 0]

(***************************************************************************)
(* hexGenerator.js: the grid generator behind the HexRenderer.             *)
(* A grid generator is [gridSize, hexSize, hexGap, effectiveSize, noise].  *)
(* Its rim heights are in units of 1 / (400 * NoiseTop).                   *)
(***************************************************************************)
GridGenerator_new(gridSize, hexSize, hexGap, seed) ==
    [gridSize |-> gridSize, hexSize |-> hexSize, hexGap |-> hexGap,
     effectiveSize |-> hexSize - hexGap, noise |-> seed]

\* noise of the grid generator at a jittered point: x is <<x, jx>>, z is <<s, r, jz>>
GridNoise(g, site, x, z) ==
    PerlinNoise_get(g.noise, site, x[1] + 3 * x[2], <<z[1] + 5 * z[3], z[2]>>)

\* HexGenerator.getPerturbation: per-axis jitter (noise * 2 - 1), in units of
\* maxOffset / NoiseTop
getPerturbation(g, x, z) ==
    [x |-> 2 * GridNoise(g, 20, x, z) - NoiseTop,
     y |-> 2 * GridNoise(g, 21, x, z) - NoiseTop,
     z |-> 2 * GridNoise(g, 22, x, z) - NoiseTop]

\* HexGenerator.generateHexVertices (hexGenerator.js): elevation in hundredths
GridGenerator_generateHexVertices(g, centerX, centerY, elevation) ==
    LET centerNoise == getPerturbation(g, <<centerX, 0>>, <<centerY[1], centerY[2], 0>>)
        perturbedCenterX == <<centerX, centerNoise.x>>
        perturbedCenterY == <<centerY[1], centerY[2], centerNoise.z>>
        centerElevationOffset ==
            80 * GridNoise(g, 23, <<centerX, 0>>, <<centerY[1], centerY[2], 0>>)
        perturbedElevation == elevation * 4 * NoiseTop + centerElevationOffset
    IN  [k \in 1 .. 6 |->
            LET baseX == <<perturbedCenterX[1] + g.effectiveSize * CosHalf[k],
                           perturbedCenterX[2]>>
                baseZ == <<perturbedCenterY[1] + g.effectiveSize * SinRoot[k],
                           perturbedCenterY[2], perturbedCenterY[3]>>
                perturbation == getPerturbation(g, baseX, baseZ)
            IN  << <<baseX[1], baseX[2] + perturbation.x>>,
                   perturbedElevation + 3 * g.effectiveSize * perturbation.y,
                   <<baseZ[1], baseZ[2], baseZ[3] + perturbation.z>> >>]

\* elevationData[index] when the array is given and holds a (truthy) entry there
ElevationEntry(elevationData, index) ==
    IF elevationData # Null /\ index + 1 <= Len(elevationData)
    THEN elevationData[index + 1] ELSE Null

\* the hex generateGrid pushes for (col, row)
GridGenerator_hexAt(g, elevationData, col, row) ==
    LET index == row * g.gridSize + col
        entry == ElevationEntry(elevationData, index)
        elevation == IF entry # Null THEN entry.heightOffset ELSE 0
        centerX == CenterX(g.effectiveSize, g.hexGap, col)
        centerY == CenterZ(g.effectiveSize, g.hexGap, col, row)
    IN  [position |-> <<centerX, elevation, centerY>>,
         vertices |-> GridGenerator_generateHexVertices(g, centerX, centerY, elevation),
         elevation |-> elevation,
         gridCoords |-> <<col, row>>,
         biomeIndex |-> IF entry # Null THEN entry.biomeIndex ELSE 0,
         featureIndex |-> IF entry # Null THEN entry.featureIndex ELSE 0]

\* generateGrid whose loops both run on the column counter
generateGrid_rowFromCol(g, elevationData) ==
    IF g.gridSize <= 0 THEN <<>>
    ELSE [k \in 1 .. (g.gridSize * g.gridSize) |->
            GridGenerator_hexAt(g, elevationData,
                                (k - 1) % g.gridSize, (k - 1) % g.gridSize)]

\* generateGrid looping to the magnitude of gridSize
generateGrid_magnitude(g, elevationData) ==
    [k \in 1 .. (g.gridSize * g.gridSize) |->
        GridGenerator_hexAt(g, elevationData,
                            (k - 1) % (IF g.gridSize < 0 THEN -g.gridSize ELSE g.gridSize),
                            (k - 1) \div (IF g.gridSize < 0 THEN -g.gridSize
                                          ELSE g.gridSize))]

\* HexGenerator.generateGrid: row outer, col inner; empty when gridSize <= 0
generateGrid(g, elevationData) ==
    IF g.gridSize <= 0 THEN <<>>
    ELSE [k \in 1 .. (g.gridSize * g.gridSize) |->
            GridGenerator_hexAt(g, elevationData,
                                (k - 1) % g.gridSize, (k - 1) \div g.gridSize)]

\* Array.prototype.find on gridCoords: the first hex at coords, Null (undefined) if none
HexGrid_find(grid, coords) ==
    IF \E i \in 1 .. Len(grid) : grid[i].gridCoords = coords
    THEN grid[CHOOSE i \in 1 .. Len(grid) :
                /\ grid[i].gridCoords = coords
                /\ \A j \in 1 .. (i - 1) : grid[j].gridCoords # coords]
    ELSE Null

\* HexGenerator.getNeighbor that clamps to the hex itself where the grid ends
HexGenerator_getNeighbor_clamped(gridSize, hex, direction, grid) ==
    LET neighborCoords == HexGenerator_getNeighborCoords(gridSize, hex.gridCoords, direction)
        found == IF neighborCoords = Null THEN Null ELSE HexGrid_find(grid, neighborCoords)
    IN  IF found = Null THEN hex ELSE found

\* HexGenerator.getNeighbor (hexGenerator.js): bounds-checked coordinates, grid lookup
HexGenerator_getNeighbor(gridSize, hex, direction, grid) ==
    LET neighborCoords == HexGenerator_getNeighborCoords(gridSize, hex.gridCoords, direction)
    IN  IF neighborCoords = Null THEN Null ELSE HexGrid_find(grid, neighborCoords)

(***************************************************************************)
(* HexRenderer.createHexGeometry, variants "basic" and "atlas".            *)
(* The geometry carries the console log of the skirts and corner triangles *)
(* it created and whether the call threw.                                  *)
(***************************************************************************)
Sum6(f) == f[1] + f[2] + f[3] + f[4] + f[5] + f[6]

\* the cap: the centre is the average of the rim (kept as the sum, in sixths) at the
\* height of rim vertex 0; the two variants wind the fan in opposite orders
HexRenderer_cap(variant, hex) ==
    LET v == hex.vertices
        centerX == <<Sum6([k \in 1 .. 6 |-> v[k][1][1]]), Sum6([k \in 1 .. 6 |-> v[k][1][2]])>>
        centerZ == <<Sum6([k \in 1 .. 6 |-> v[k][3][1]]), Sum6([k \in 1 .. 6 |-> v[k][3][2]]),
                     Sum6([k \in 1 .. 6 |-> v[k][3][3]])>>
    IN  [positions |-> << <<centerX, v[1][2], centerZ>> >> \o v,
         normals |-> [k \in 1 .. 7 |-> NormalUp],
         uvs |-> <<UvCenter>> \o [k \in 1 .. 6 |-> UvRim(k - 1)],
         indices |-> IF variant = "basic"
                     THEN <<0, 1, 2,  0, 2, 3,  0, 3, 4,  0, 4, 5,  0, 5, 6,  0, 6, 1>>
                     ELSE <<0, 2, 1,  0, 3, 2,  0, 4, 3,  0, 5, 4,  0, 6, 5,  0, 1, 6>>,
         log |-> <<>>,
         processedConnections |-> {},
         threw |-> FALSE]

\* the direction maps HexRenderer.createHexGeometry declares for itself (the same
\* literals in both variants)
HexRenderer_edgeVertexMap ==
    ("N" :> <<4, 5>>) @@ ("NE" :> <<5, 0>>) @@ ("SE" :> <<0, 1>>) @@
    ("S" :> <<1, 2>>) @@ ("SW" :> <<2, 3>>) @@ ("NW" :> <<3, 4>>)
HexRenderer_oppositeDirection ==
    ("N" :> "S") @@ ("NE" :> "SW") @@ ("SE" :> "NW") @@
    ("S" :> "N") @@ ("SW" :> "NE") @@ ("NW" :> "SE")
HexRenderer_clockwiseDirection ==
    ("N" :> "NE") @@ ("NE" :> "SE") @@ ("SE" :> "S") @@
    ("S" :> "SW") @@ ("SW" :> "NW") @@ ("NW" :> "N")

\* the two skirt triangles (v1, v2, nv1) and (v1, nv1, nv2) towards `neighbor`
HexRenderer_addSkirt(g, hex, neighbor, direction) ==
    LET neighborDirection == HexRenderer_oppositeDirection[direction]
        v1 == hex.vertices[HexRenderer_edgeVertexMap[direction][1] + 1]
        v2 == hex.vertices[HexRenderer_edgeVertexMap[direction][2] + 1]
        nv1 == neighbor.vertices[HexRenderer_edgeVertexMap[neighborDirection][1] + 1]
        nv2 == neighbor.vertices[HexRenderer_edgeVertexMap[neighborDirection][2] + 1]
    IN  [g EXCEPT
            !.indices = @ \o [k \in 1 .. 6 |-> Len(g.positions) + k - 1],
            !.positions = @ \o <<v1, v2, nv1,  v1, nv1, nv2>>,
            !.normals = @ \o [k \in 1 .. 6 |-> NormalSide],
            !.uvs = @ \o [k \in 1 .. 6 |-> UvCenter],
            !.log = Append(@, [kind |-> "skirt", from |-> hex.gridCoords,
                               to |-> neighbor.gridCoords])]

\* the corner triangle pushed without its uvs
HexRenderer_addCorner_noUvs(g, variant, hex, neighbor, cwNeighbor, direction) ==
    LET cwNeighborDirection == HexRenderer_oppositeDirection[HexRenderer_clockwiseDirection[direction]]
        v2 == hex.vertices[HexRenderer_edgeVertexMap[direction][2] + 1]
        nv1 == neighbor.vertices[HexRenderer_edgeVertexMap[HexRenderer_oppositeDirection[direction]][1] + 1]
        cwv2 == cwNeighbor.vertices[HexRenderer_edgeVertexMap[cwNeighborDirection][2] + 1]
        cornerTriangleBaseIndex == Len(g.positions)
    IN  [g EXCEPT
            !.indices = @ \o (IF variant = "basic"
                              THEN <<cornerTriangleBaseIndex, cornerTriangleBaseIndex + 1,
                                     cornerTriangleBaseIndex + 2>>
                              ELSE <<cornerTriangleBaseIndex, cornerTriangleBaseIndex + 2,
                                     cornerTriangleBaseIndex + 1>>),
            !.positions = @ \o <<v2, nv1, cwv2>>,
            !.processedConnections =
                @ \cup {{hex.gridCoords, neighbor.gridCoords, cwNeighbor.gridCoords}},
            !.normals = @ \o [k \in 1 .. 3 |-> NormalUp],
            !.log = Append(@, [kind |-> "corner",
                               id |-> {hex.gridCoords, neighbor.gridCoords,
                                       cwNeighbor.gridCoords}])]

\* the corner triangle (v2, nv1, cwv2) between the hex, `neighbor` and `cwNeighbor`
HexRenderer_addCorner(g, variant, hex, neighbor, cwNeighbor, direction) ==
    LET cwNeighborDirection == HexRenderer_oppositeDirection[HexRenderer_clockwiseDirection[direction]]
        v2 == hex.vertices[HexRenderer_edgeVertexMap[direction][2] + 1]
        nv1 == neighbor.vertices[HexRenderer_edgeVertexMap[HexRenderer_oppositeDirection[direction]][1] + 1]
        cwv2 == cwNeighbor.vertices[HexRenderer_edgeVertexMap[cwNeighborDirection][2] + 1]
        cornerTriangleBaseIndex == Len(g.positions)
    IN  [g EXCEPT
            !.indices = @ \o (IF variant = "basic"
                              THEN <<cornerTriangleBaseIndex, cornerTriangleBaseIndex + 1,
                                     cornerTriangleBaseIndex + 2>>
                              ELSE <<cornerTriangleBaseIndex, cornerTriangleBaseIndex + 2,
                                     cornerTriangleBaseIndex + 1>>),
            !.positions = @ \o <<v2, nv1, cwv2>>,
            !.processedConnections =
                @ \cup {{hex.gridCoords, neighbor.gridCoords, cwNeighbor.gridCoords}},
            !.normals = @ \o [k \in 1 .. 3 |-> NormalUp],
            !.uvs = @ \o [k \in 1 .. 3 |-> UvCenter],
            !.log = Append(@, [kind |-> "corner",
                               id |-> {hex.gridCoords, neighbor.gridCoords,
                                       cwNeighbor.gridCoords}])]

\* the body of the skirt loop once both neighbours were looked up
HexRenderer_stitch(g, variant, hex, neighbor, cwNeighbor, direction) ==
    IF neighbor = Null THEN g
    ELSE IF cwNeighbor = Null THEN HexRenderer_addSkirt(g, hex, neighbor, direction)
    ELSE IF {hex.gridCoords, neighbor.gridCoords, cwNeighbor.gridCoords}
                \in g.processedConnections
         THEN HexRenderer_addSkirt(g, hex, neighbor, direction)
         ELSE HexRenderer_addCorner(HexRenderer_addSkirt(g, hex, neighbor, direction),
                                    variant, hex, neighbor, cwNeighbor, direction)

\* the two lookups of one iteration, through a HexGenerator built with its default
\* grid size
HexRenderer_lookups(thisHex, grid, direction) ==
    <<HexGenerator_getNeighbor(DefaultGridSize, thisHex, direction, grid),
      HexGenerator_getNeighbor(DefaultGridSize, thisHex, HexRenderer_clockwiseDirection[direction], grid)>>

\* one iteration of the skirt loop
HexRenderer_skirt(g, variant, hex, grid, direction) ==
    IF g.threw THEN g
    ELSE IF HexGrid_find(grid, hex.gridCoords) = Null THEN [g EXCEPT !.threw = TRUE]
    ELSE HexRenderer_stitch(
            g, variant, hex,
            HexRenderer_lookups(HexGrid_find(grid, hex.gridCoords), grid, direction)[1],
            HexRenderer_lookups(HexGrid_find(grid, hex.gridCoords), grid, direction)[2],
            direction)

\* HexRenderer.createHexGeometry: cap, then SE, S, SW; the set of processed
\* connections is local to the call and is not returned
HexRenderer_createHexGeometry(variant, hex, grid) ==
    LET g == HexRenderer_skirt(
                HexRenderer_skirt(
                    HexRenderer_skirt(HexRenderer_cap(variant, hex),
                                      variant, hex, grid, skirtDirections[1]),
                    variant, hex, grid, skirtDirections[2]),
                variant, hex, grid, skirtDirections[3])
    IN  [positions |-> g.positions, indices |-> g.indices, normals |-> g.normals,
         uvs |-> g.uvs, log |-> g.log, threw |-> g.threw]

\* the generator objects a construction can yield: parameters from the caller, the
\* four seeds from Math.random
Generators ==
    {HexGenerator_new(n, s, p, u1, u2, g1, g2) :
        n \in GridSizes, s \in HexSizes, p \in HexGaps,
        u1 \in Seeds, u2 \in Seeds, g1 \in Seeds, g2 \in Seeds}

RendererIdle ==
    /\ rgen = Null /\ rpc = "idle" /\ rnext = 0 /\ hexGrid = <<>> /\ rmeshes = <<>>
CoordsIdle == cq = Null /\ cres = Null
NoiseIdle == noise = Null /\ ncalls = <<>>
DebuggerIdle == dbg = Null
AppIdle == app = Null
OthersIdle == NoiseIdle /\ DebuggerIdle /\ AppIdle
GeneratorIdle ==
    /\ gen = Null /\ pc = "idle" /\ nextCell = 0 /\ hexes = <<>> /\ meshes = <<>>
    /\ firstRun = Null

\* state after `new HexGenerator(gridSize, hexSize, hexGap)`, renderGrid about to loop
Init ==
    /\ gen \in Generators
    /\ pc = "render"
    /\ nextCell = 0
    /\ hexes = <<>>
    /\ meshes = <<>>
    /\ firstRun = Null
    /\ RendererIdle
    /\ CoordsIdle
    /\ OthersIdle

\* number of iterations of `for (row < gridSize) for (col < gridSize)`: none when
\* gridSize is not positive
LoopCount(gridSize) == IF gridSize <= 0 THEN 0 ELSE gridSize * gridSize

\* one iteration of the loops of HexGenerator.renderGrid (row outer, col inner):
\* build the hex, create its mesh
RenderCell ==
    /\ pc = "render"
    /\ nextCell < LoopCount(gen.gridSize)
    /\ LET row == nextCell \div gen.gridSize
           col == nextCell % gen.gridSize
           hex == HexGenerator_buildHex(gen, col, row)
       IN  /\ hexes' = Append(hexes, hex)
           /\ meshes' = Append(meshes, HexGenerator_createHexMesh(gen.hexUtils, hex))
    /\ nextCell' = nextCell + 1
    /\ UNCHANGED <<gen, pc, firstRun>>
    /\ UNCHANGED <<rndVars, crdVars, nseVars, dbg, app>>

\* the loops are over: scene.add(group), return
RenderDone ==
    /\ pc = "render"
    /\ nextCell = LoopCount(gen.gridSize)
    /\ pc' = "done"
    /\ UNCHANGED <<gen, nextCell, hexes, meshes, firstRun>>
    /\ UNCHANGED <<rndVars, crdVars, nseVars, dbg, app>>

Next == RenderCell \/ RenderDone

Spec == Init /\ [][Next]_vars

(***************************************************************************)
(* Specification SpecRenderer: a grid of hexGenerator.js rendered by       *)
(* HexRenderer.renderGrid, in either variant of createHexGeometry.         *)
(***************************************************************************)
\* HexRenderer.createBiomeMaterial (useDebugColors is false): the colour index used
createBiomeMaterial(biomeIndex) ==
    [colorIndex |-> IF biomeIndex < BiomeCount THEN biomeIndex ELSE 0]

\* elevation data a caller may pass to generateGrid: none, or an array shorter than
\* most grids (heights in hundredths)
ElevationInputs ==
    {Null,
     <<[heightOffset |-> 50, biomeIndex |-> 1, featureIndex |-> 0],
       [heightOffset |-> 120, biomeIndex |-> 5, featureIndex |-> 1],
       [heightOffset |-> -30, biomeIndex |-> -1, featureIndex |-> 0]>>}

Variants == {"basic", "atlas"}

\* grid sizes of the rendered grids: the small ones, and one above the default grid
\* size of the HexGenerator that createHexGeometry constructs for its lookups
RendererGridSizes == GridSizes \cup {DefaultGridSize + 1}

RendererSetups ==
    {[generator |-> GridGenerator_new(n, s, p, seed), elevationData |-> e, variant |-> v] :
        n \in GridSizes, s \in {DefaultHexSize}, p \in HexGaps, seed \in Seeds,
        e \in ElevationInputs, v \in Variants}
    \cup
    {[generator |-> GridGenerator_new(n, DefaultHexSize, 0, 0), elevationData |-> Null,
      variant |-> v] :
        n \in RendererGridSizes \ GridSizes, v \in Variants}

\* state after the grid was generated, HexRenderer.renderGrid about to iterate
RInit ==
    /\ rgen \in RendererSetups
    /\ hexGrid = generateGrid(rgen.generator, rgen.elevationData)
    /\ rpc = "render"
    /\ rnext = 0
    /\ rmeshes = <<>>
    /\ GeneratorIdle
    /\ CoordsIdle
    /\ OthersIdle

\* one call of the forEach callback of HexRenderer.renderGrid: material, then mesh;
\* an exception in createHexGeometry ends renderGrid
RRenderHex ==
    /\ rpc = "render"
    /\ rnext < Len(hexGrid)
    /\ LET hex == hexGrid[rnext + 1]
           material == createBiomeMaterial(hex.biomeIndex)
           geometry == HexRenderer_createHexGeometry(rgen.variant, hex, hexGrid)
       IN  IF geometry.threw
           THEN /\ rpc' = "threw"
                /\ UNCHANGED <<rnext, rmeshes>>
           ELSE /\ rmeshes' = Append(rmeshes, [geometry |-> geometry, material |-> material,
                                               gridCoords |-> hex.gridCoords])
                /\ rnext' = rnext + 1
                /\ rpc' = rpc
    /\ UNCHANGED <<rgen, hexGrid>>
    /\ UNCHANGED <<genVars, crdVars, nseVars, dbg, app>>

\* the forEach is over: scene.add(group), return
RRenderDone ==
    /\ rpc = "render"
    /\ rnext = Len(hexGrid)
    /\ rpc' = "done"
    /\ UNCHANGED <<rgen, rnext, hexGrid, rmeshes>>
    /\ UNCHANGED <<genVars, crdVars, nseVars, dbg, app>>

RNext == RRenderHex \/ RRenderDone

SpecRenderer == RInit /\ [][RNext]_vars

(***************************************************************************)
(* Properties of the active generator (specification Spec).                *)
(***************************************************************************)
\* index in hexes / meshes of the cell at coords (renderGrid's row-major order)
CellIndex(coords, gridSize) == coords[2] * gridSize + coords[1] + 1
Built(coords) ==
    InGrid(coords, gen.gridSize) /\ CellIndex(coords, gen.gridSize) <= Len(hexes)
\* position (1-based) in a mesh's positions of rim vertex i of the mesh's own cap
CapRim(i) == i + 2
\* position (1-based) of the first vertex the j-th skirt direction appended
SkirtBase(j) == 7 + 9 * (j - 1) + 1

\* C1: seam closure.  For every built cell c and every d in {SE, S, SW} whose
\* neighbour n is in the grid, the skirt's v1, v2 are c's own cap rim vertices of
\* edge d, and nv1, nv2 are the cap rim vertices of edge opposite(d) that n's own
\* mesh holds once renderGrid has built n.
C1_SeamClosure ==
    \A k \in 1 .. Len(meshes) : \A j \in 1 .. 3 :
        LET d == skirtDirections[j]
            n == HexUtils_getNeighborCoords(hexes[k].gridCoords, d)
            o == oppositeDirection[d]
            m == meshes[k].positions
            b == SkirtBase(j)
        IN  InGrid(n, gen.gridSize) =>
              /\ m[b] = m[CapRim(edgeVertexMap[d][1])]
              /\ m[b + 1] = m[CapRim(edgeVertexMap[d][2])]
              /\ m[b + 3] = m[CapRim(edgeVertexMap[d][1])]
              /\ Built(n) =>
                    LET nm == meshes[CellIndex(n, gen.gridSize)].positions
                    IN  /\ m[b + 2] = nm[CapRim(edgeVertexMap[o][1])]
                        /\ m[b + 4] = nm[CapRim(edgeVertexMap[o][1])]
                        /\ m[b + 5] = nm[CapRim(edgeVertexMap[o][2])]

\* a grid is finished in which an odd-column cell is the SE/S/SW neighbour of a cell
C1_Witness ==
    /\ pc = "done"
    /\ \E k \in 1 .. Len(meshes) : \E j \in 1 .. 3 :
        LET n == HexUtils_getNeighborCoords(hexes[k].gridCoords, skirtDirections[j])
        IN  Built(n) /\ n[1] % 2 = 1

\* the cap centre and rim positions of the cells of the grid, as renderGrid builds them
InGridPositions ==
    UNION {LET hex == HexGenerator_buildHex(gen, col, row)
           IN  {Pos(hex.center[1], hex.vertices[1][2], hex.center[3])}
                   \cup {hex.vertices[i] : i \in 1 .. 6} :
           col \in 0 .. (gen.gridSize - 1), row \in 0 .. (gen.gridSize - 1)}

\* C5: every position of every mesh of the active generator is the cap centre or a
\* rim vertex of a cell inside the grid (no vertex of an off-grid cell is emitted).
C5_NoOffGridVertex ==
    \A k \in 1 .. Len(meshes) :
        \A i \in 1 .. Len(meshes[k].positions) :
            meshes[k].positions[i] \in InGridPositions

\* C7 as claimed: the height of rim vertex i is the jitter sampled at vertex i's own
\* (unperturbed) position, on the centre-based elevation baseline.
C7_HeightAtOwnPosition ==
    \A k \in 1 .. Len(hexes) : \A i \in 0 .. 5 :
        LET hu == gen.hexUtils
            cx == hexes[k].center[1]
            cz == hexes[k].center[3]
            x == cx + hu.effectiveSize * CosHalf[i + 1]
            z == <<cz[1] + hu.effectiveSize * SinRoot[i + 1], cz[2]>>
        IN  hexes[k].vertices[i + 1][2] =
                perturbY(hu.perturbUtils, x, getElevation(hu.perturbUtils, cx, cz), z)

\* C7 as amended: the 6 rim heights of a cell are equal to each other; the height is
\* sampled at the cell centre, only the x/z jitter at the vertex.
C7_RimHeightsEqual ==
    \A k \in 1 .. Len(hexes) : \A i, j \in 1 .. 6 :
        hexes[k].vertices[i][2] = hexes[k].vertices[j][2]

\* a built cell where sampling the height at some rim vertex would give another value
\* than the one the cell's rim carries, and whose rim x/z jitter does differ
C7_Witness ==
    \E k \in 1 .. Len(hexes) :
        /\ \E i \in 0 .. 5 :
            LET hu == gen.hexUtils
                cx == hexes[k].center[1]
                cz == hexes[k].center[3]
                x == cx + hu.effectiveSize * CosHalf[i + 1]
                z == <<cz[1] + hu.effectiveSize * SinRoot[i + 1], cz[2]>>
            IN  hexes[k].vertices[i + 1][2] #
                    perturbY(hu.perturbUtils, x, getElevation(hu.perturbUtils, cx, cz), z)
        /\ \E i, j \in 1 .. 6 : hexes[k].vertices[i][1][2] # hexes[k].vertices[j][1][2]

C9_NeighborEqualsBuilt ==
    \A k \in 1 .. Len(hexes) : \A d \in Directions :
        LET n == HexUtils_getNeighborCoords(hexes[k].gridCoords, d)
        IN  Built(n) =>
              LET nb == HexUtils_getNeighbor(gen.hexUtils, hexes[k], d)
                  h == hexes[CellIndex(n, gen.gridSize)]
              IN  /\ nb.gridCoords = h.gridCoords
                  /\ nb.center = h.center
                  /\ nb.elevation = h.elevation
                  /\ nb.vertices = h.vertices
                  /\ nb.biomeIndex = h.biomeIndex

(***************************************************************************)
(* Properties of the HexRenderer stitchers (specification SpecRenderer).   *)
(***************************************************************************)
RGridSize == rgen.generator.gridSize
RCells == (0 .. (RGridSize - 1)) \X (0 .. (RGridSize - 1))
\* the neighbour of a cell by the direction table, wherever it lies
TableNeighbor(c, d) == HexUtils_getNeighborCoords(c, d)
\* log entries of a kind in the mesh of the k-th hex
LogEntries(k, kind) ==
    {i \in 1 .. Len(rmeshes[k].geometry.log) : rmeshes[k].geometry.log[i].kind = kind}
RECURSIVE CountLog(_, _)
CountLog(k, kind) ==
    IF k = 0 THEN 0 ELSE Cardinality(LogEntries(k, kind)) + CountLog(k - 1, kind)
\* the skirts the mesh of cell a created towards cell b
SkirtsFromTo(a, b) ==
    LET k == CellIndex(a, RGridSize)
    IN  {i \in LogEntries(k, "skirt") :
            /\ rmeshes[k].geometry.log[i].from = a
            /\ rmeshes[k].geometry.log[i].to = b}
\* the sets of three mutually adjacent cells of the grid
InteriorCorners ==
    {{c, TableNeighbor(c, d), TableNeighbor(c, clockwiseDirection[d])} :
        <<c, d>> \in {x \in RCells \X Directions :
                        /\ InGrid(TableNeighbor(x[1], x[2]), RGridSize)
                        /\ InGrid(TableNeighbor(x[1], clockwiseDirection[x[2]]), RGridSize)}}
\* unordered pairs of adjacent cells of the grid
AdjacentPairs ==
    {{x[1], TableNeighbor(x[1], x[2])} :
        x \in {y \in RCells \X Directions : InGrid(TableNeighbor(y[1], y[2]), RGridSize)}}

\* C2: corner dedup.  After a full build the number of corner-fill triangles equals
\* the number of distinct sets of three mutually adjacent cells.
C2_CornerDedup ==
    rpc = "done" => CountLog(Len(rmeshes), "corner") = Cardinality(InteriorCorners)

\* C3: after a full build by HexRenderer.renderGrid every pair of adjacent cells is
\* bridged by exactly one skirt, for every grid size.
C3_EveryEdgeOneSkirt ==
    rpc = "done" =>
        /\ \A pr \in AdjacentPairs :
            \E a, b \in pr :
                /\ a # b
                /\ Cardinality(SkirtsFromTo(a, b)) + Cardinality(SkirtsFromTo(b, a)) = 1
        /\ CountLog(Len(rmeshes), "skirt") = Cardinality(AdjacentPairs)

\* the skirt directions of cell c whose neighbour is inside the grid
OpenDirections(c) ==
    {j \in 1 .. 3 : InGrid(TableNeighbor(c, skirtDirections[j]), RGridSize)}

\* C4: boundary suppression.  A rendered cell creates no skirt towards a neighbour
\* outside the grid and no corner triangle naming a cell outside the grid, it holds
\* its 6 cap triangles and at most 3 more per SE/S/SW neighbour inside the grid (so
\* exactly the 6 when all three are outside), and createHexGeometry does not throw.
C4_BoundarySuppression ==
    /\ rpc # "threw"
    /\ \A k \in 1 .. Len(rmeshes) :
        LET c == hexGrid[k].gridCoords
            g == rmeshes[k].geometry
        IN  /\ \A i \in 1 .. Len(g.log) :
                /\ g.log[i].kind = "skirt" =>
                        g.log[i].from = c /\ InGrid(g.log[i].to, RGridSize)
                        /\ \E j \in OpenDirections(c) :
                                g.log[i].to = TableNeighbor(c, skirtDirections[j])
                /\ g.log[i].kind = "corner" =>
                        \A x \in g.log[i].id : InGrid(x, RGridSize)
            /\ Len(g.indices) <= 3 * (6 + 3 * Cardinality(OpenDirections(c)))
            /\ Len(g.indices) >= 18
            /\ OpenDirections(c) = {} => Len(g.indices) = 18 /\ Len(g.positions) = 7

\* a finished grid with a cell whose SE, S and SW neighbours are all outside, and a
\* cell that has a skirt although one of its skirt directions leaves the grid
C4_Witness ==
    /\ rpc = "done"
    /\ \E k \in 1 .. Len(rmeshes) : OpenDirections(hexGrid[k].gridCoords) = {}
    /\ \E k \in 1 .. Len(rmeshes) :
        /\ Cardinality(OpenDirections(hexGrid[k].gridCoords)) \in {1, 2}
        /\ LogEntries(k, "skirt") # {}

(***************************************************************************)
(* Specification SpecRegen: the active generator run twice.  A second      *)
(* `new HexGenerator(gridSize, hexSize, hexGap)` takes the same arguments;  *)
(* the constructor has no seed parameter, each PerturbationUtils it creates *)
(* draws its two noise seeds from Math.random().                            *)
(***************************************************************************)
\* the generators a constructor call with the arguments of g can produce
SameArguments(g) ==
    {h \in Generators :
        /\ h.gridSize = g.gridSize
        /\ h.hexSize = g.hexSize
        /\ h.hexGap = g.hexGap}

\* the first run is over; construct the generator again and start renderGrid
Regenerate ==
    /\ pc = "done"
    /\ firstRun = Null
    /\ firstRun' = meshes
    /\ gen' \in SameArguments(gen)
    /\ pc' = "render"
    /\ nextCell' = 0
    /\ hexes' = <<>>
    /\ meshes' = <<>>
    /\ UNCHANGED <<rndVars, crdVars, nseVars, dbg, app>>

NextRegen == RenderCell \/ RenderDone \/ Regenerate

SpecRegen == Init /\ [][NextRegen]_vars

\* C6: generation determinism.  Two runs with the same gridSize, hexSize and hexGap
\* produce the same positions and indices for every cell.
C6_SameOutput ==
    (pc = "done" /\ firstRun # Null) =>
        /\ Len(meshes) = Len(firstRun)
        /\ \A k \in 1 .. Len(meshes) :
            /\ meshes[k].positions = firstRun[k].positions
            /\ meshes[k].indices = firstRun[k].indices

(***************************************************************************)
(* Specification SpecCoords: one call of getNeighborCoords on each of the  *)
(* two implementations, for a cell of the grid and a direction string.     *)
(***************************************************************************)
DirectionInputs == Directions \cup {"E"}
\* grids up to one above MaxGrid: the smallest grid with an even column whose six
\* neighbours are all inside has 4 columns
CoordGridSizes == 1 .. (MaxGrid + 1)
CoordQueries ==
    {[gridSize |-> n, coords |-> <<c, r>>, direction |-> d] :
        n \in CoordGridSizes, c \in 0 .. MaxGrid, r \in 0 .. MaxGrid,
        d \in DirectionInputs}

CInit ==
    /\ cq \in {q \in CoordQueries : InGrid(q.coords, q.gridSize)}
    /\ cres = Null
    /\ GeneratorIdle
    /\ RendererIdle
    /\ OthersIdle

\* hexUtils.getNeighborCoords(coords, direction) on a HexUtils of cq.gridSize and
\* hexGenerator.getNeighborCoords(coords, direction) on a HexGenerator of cq.gridSize
CallGetNeighborCoords ==
    /\ cq # Null
    /\ cres = Null
    /\ cres' = [hexUtils |-> HexUtils_getNeighborCoords(cq.coords, cq.direction),
                hexGenerator |->
                    HexGenerator_getNeighborCoords(cq.gridSize, cq.coords, cq.direction)]
    /\ UNCHANGED cq
    /\ UNCHANGED <<genVars, rndVars, nseVars, dbg, app>>

\* destructuring `const [col, row] = coords` of a null argument
TypeError == "TypeError"

\* the way back: getNeighborCoords(result, oppositeDirection[direction]) on each
\* implementation, applied to that implementation's own result
CallGetNeighborCoordsBack ==
    /\ cres # Null
    /\ "hexUtilsBack" \notin DOMAIN cres
    /\ cres' = [hexUtils |-> cres.hexUtils,
                hexGenerator |-> cres.hexGenerator,
                hexUtilsBack |->
                    IF cres.hexUtils = Null THEN TypeError
                    ELSE HexUtils_getNeighborCoords(cres.hexUtils,
                                                    oppositeDirection[cq.direction]),
                hexGeneratorBack |->
                    IF cres.hexGenerator = Null THEN TypeError
                    ELSE HexGenerator_getNeighborCoords(cq.gridSize, cres.hexGenerator,
                                                        oppositeDirection[cq.direction])]
    /\ UNCHANGED cq
    /\ UNCHANGED <<genVars, rndVars, nseVars, dbg, app>>

CNext == CallGetNeighborCoords \/ CallGetNeighborCoordsBack

SpecCoords == CInit /\ [][CNext]_vars

\* the offsets of the direction table: even columns, odd columns
TableOffset(col, direction) ==
    LET odd == JsMod(col, 2) = 1
    IN  CASE direction = "N"  -> <<0, -1>>
          [] direction = "NE" -> IF odd THEN <<1, 0>> ELSE <<1, -1>>
          [] direction = "SE" -> IF odd THEN <<1, 1>> ELSE <<1, 0>>
          [] direction = "S"  -> <<0, 1>>
          [] direction = "SW" -> IF odd THEN <<-1, 1>> ELSE <<-1, 0>>
          [] direction = "NW" -> IF odd THEN <<-1, 0>> ELSE <<-1, -1>>
\* null for an unknown direction or a result outside the grid, else the table result
ExpectedNeighborCoords(q) ==
    IF q.direction \notin Directions THEN Null
    ELSE LET o == TableOffset(q.coords[1], q.direction)
             t == <<q.coords[1] + o[1], q.coords[2] + o[2]>>
         IN  IF InGrid(t, q.gridSize) THEN t ELSE Null

\* C10: both implementations of getNeighborCoords return null exactly for an unknown
\* direction or a table result outside [0, gridSize), and the table result otherwise.
C10_UniformBoundsCheck ==
    cres # Null =>
        /\ cres.hexUtils = ExpectedNeighborCoords(cq)
        /\ cres.hexGenerator = ExpectedNeighborCoords(cq)

(***************************************************************************)
(* The direction table of the specification, and the algebra of the maps.  *)
(***************************************************************************)
DirectionTable ==
    [d \in Directions |->
        CASE d = "N"  -> [dcol |-> 0,  even |-> -1, odd |-> -1, edge |-> <<4, 5>>,
                          opposite |-> "S",  clockwise |-> "NE"]
          [] d = "NE" -> [dcol |-> 1,  even |-> -1, odd |-> 0,  edge |-> <<5, 0>>,
                          opposite |-> "SW", clockwise |-> "SE"]
          [] d = "SE" -> [dcol |-> 1,  even |-> 0,  odd |-> 1,  edge |-> <<0, 1>>,
                          opposite |-> "NW", clockwise |-> "S"]
          [] d = "S"  -> [dcol |-> 0,  even |-> 1,  odd |-> 1,  edge |-> <<1, 2>>,
                          opposite |-> "N",  clockwise |-> "SW"]
          [] d = "SW" -> [dcol |-> -1, even |-> 0,  odd |-> 1,  edge |-> <<2, 3>>,
                          opposite |-> "NE", clockwise |-> "NW"]
          [] d = "NW" -> [dcol |-> -1, even |-> -1, odd |-> 0,  edge |-> <<3, 4>>,
                          opposite |-> "SE", clockwise |-> "N"]]

\* the cell the table reaches from coords in direction d
TableStep(coords, d) ==
    <<coords[1] + DirectionTable[d].dcol,
      coords[2] + (IF coords[1] % 2 = 1 THEN DirectionTable[d].odd
                                        ELSE DirectionTable[d].even)>>

\* all six neighbours of the queried cell are inside the grid
AllNeighborsInside(q) == \A d \in Directions : InGrid(TableStep(q.coords, d), q.gridSize)

BackCalled == cres # Null /\ "hexUtilsBack" \in DOMAIN cres

\* C11: opposite is an involution, and from a cell whose six neighbours are inside the
\* grid, going to the neighbour in direction d and back in the opposite direction
\* returns the cell, in both implementations of getNeighborCoords.
C11_RoundTrip ==
    /\ \A d \in Directions :
        /\ oppositeDirection[oppositeDirection[d]] = d
        /\ HexRenderer_oppositeDirection[HexRenderer_oppositeDirection[d]] = d
    /\ (BackCalled /\ cq.direction \in Directions /\ AllNeighborsInside(cq)) =>
        /\ cres.hexUtilsBack = cq.coords
        /\ cres.hexGeneratorBack = cq.coords

\* the round trip was made from an even column with all six neighbours inside
C11_Witness ==
    /\ BackCalled
    /\ cq.direction = "NE"
    /\ cq.coords[1] % 2 = 0
    /\ AllNeighborsInside(cq)
    /\ cres.hexGenerator # Null
    /\ cres.hexGeneratorBack = cq.coords

\* C12: the maps of getDirectionMaps and of HexRenderer.createHexGeometry hold the
\* table's edge vertex pairs, opposites and clockwise successors, and getNeighborCoords
\* moves by the table's offsets for even and for odd columns.
C12_TableExact ==
    /\ directions = <<"N", "NE", "SE", "S", "SW", "NW">>
    /\ \A d \in Directions :
        /\ edgeVertexMap[d] = DirectionTable[d].edge
        /\ oppositeDirection[d] = DirectionTable[d].opposite
        /\ clockwiseDirection[d] = DirectionTable[d].clockwise
        /\ HexRenderer_edgeVertexMap[d] = DirectionTable[d].edge
        /\ HexRenderer_oppositeDirection[d] = DirectionTable[d].opposite
        /\ HexRenderer_clockwiseDirection[d] = DirectionTable[d].clockwise
    /\ (cres # Null /\ cq.direction \in Directions) =>
        /\ cres.hexUtils = TableStep(cq.coords, cq.direction)
        /\ cres.hexGenerator # Null => cres.hexGenerator = TableStep(cq.coords, cq.direction)
        /\ InGrid(TableStep(cq.coords, cq.direction), cq.gridSize) => cres.hexGenerator # Null

\* both implementations stepped SW from an odd column
C12_Witness ==
    /\ cres # Null
    /\ cq.direction = "SW"
    /\ cq.coords[1] % 2 = 1
    /\ cres.hexUtils = <<cq.coords[1] - 1, cq.coords[2] + 1>>
    /\ cres.hexGenerator = cres.hexUtils

\* clockwiseDirection applied n times
RECURSIVE ClockwiseTimes(_, _, _)
ClockwiseTimes(map, d, n) == IF n = 0 THEN d ELSE ClockwiseTimes(map, map[d], n - 1)

IsSixCycle(map, d) ==
    /\ ClockwiseTimes(map, d, 6) = d
    /\ \A i, j \in 0 .. 5 : i # j => ClockwiseTimes(map, d, i) # ClockwiseTimes(map, d, j)

\* C13: from the queried direction six applications of clockwiseDirection return to
\* it, and the six directions visited on the way are pairwise distinct.
C13_ClockwiseCycle ==
    (cq # Null /\ cq.direction \in Directions) =>
        /\ IsSixCycle(clockwiseDirection, cq.direction)
        /\ IsSixCycle(HexRenderer_clockwiseDirection, cq.direction)

\* a query in direction NW, the entry that closes the cycle
C13_Witness ==
    /\ cres # Null
    /\ cq.direction = "NW"
    /\ ClockwiseTimes(clockwiseDirection, cq.direction, 1) = "N"
    /\ ClockwiseTimes(clockwiseDirection, cq.direction, 3) = "SE"

(***************************************************************************)
(* Specification SpecBuilders: either builder (the active generator's      *)
(* renderGrid, or generateGrid followed by HexRenderer.renderGrid), on the *)
(* grids of Spec and SpecRenderer and on grids of non-positive size.       *)
(***************************************************************************)
EmptyGridSizes == {-1, 0}

\* `new HexGenerator(gridSize, ...)` of the active generator with gridSize <= 0
InitEmpty ==
    /\ gen \in {HexGenerator_new(n, s, p, 0, 1, 1, 0) :
                    n \in EmptyGridSizes, s \in HexSizes, p \in HexGaps}
    /\ pc = "render"
    /\ nextCell = 0
    /\ hexes = <<>>
    /\ meshes = <<>>
    /\ firstRun = Null
    /\ RendererIdle
    /\ CoordsIdle
    /\ OthersIdle

\* generateGrid of a hexGenerator.js generator with gridSize <= 0
RInitEmpty ==
    /\ rgen \in {[generator |-> GridGenerator_new(n, DefaultHexSize, p, 0),
                  elevationData |-> e, variant |-> v] :
                    n \in EmptyGridSizes, p \in HexGaps, e \in ElevationInputs,
                    v \in Variants}
    /\ hexGrid = generateGrid(rgen.generator, rgen.elevationData)
    /\ rpc = "render"
    /\ rnext = 0
    /\ rmeshes = <<>>
    /\ GeneratorIdle
    /\ CoordsIdle
    /\ OthersIdle

BuildersInit == Init \/ RInit \/ InitEmpty \/ RInitEmpty

BuildersNext == RenderCell \/ RenderDone \/ RRenderHex \/ RRenderDone

SpecBuilders == BuildersInit /\ [][BuildersNext]_vars

\* the cells are exactly the n * n coordinates of the grid, each once
GridComplete(cells, n) ==
    /\ Len(cells) = n * n
    /\ \A i, j \in 1 .. Len(cells) : i # j => cells[i].gridCoords # cells[j].gridCoords
    /\ \A c, r \in 0 .. (n - 1) : \E i \in 1 .. Len(cells) : cells[i].gridCoords = <<c, r>>

\* C14: for gridSize N >= 1 generateGrid returns, and the loop of renderGrid builds,
\* exactly N * N cells with pairwise different gridCoords covering every (col, row)
\* of the grid, and cell (0,0) has its unperturbed centre at x = 0, z = 0.
C14_GridComplete ==
    /\ (pc = "done" /\ gen.gridSize >= 1) =>
        /\ GridComplete(hexes, gen.gridSize)
        /\ \A i \in 1 .. Len(hexes) :
            hexes[i].gridCoords = <<0, 0>> =>
                hexes[i].center[1] = 0 /\ hexes[i].center[3] = <<0, 0>>
    /\ (rpc = "done" /\ rgen.generator.gridSize >= 1) =>
        /\ GridComplete(hexGrid, rgen.generator.gridSize)
        /\ \A i \in 1 .. Len(hexGrid) :
            hexGrid[i].gridCoords = <<0, 0>> =>
                hexGrid[i].position[1] = 0 /\ hexGrid[i].position[3] = <<0, 0>>

\* generateGrid returned a 3 x 3 grid and every hex of it was rendered
C14_Witness ==
    /\ rpc = "done"
    /\ rgen.generator.gridSize = 3
    /\ Len(hexGrid) = 9
    /\ Len(rmeshes) = 9

(***************************************************************************)
(* Properties of the meshes of both builders (specification SpecBuilders). *)
(***************************************************************************)
\* triangle t (0-based) of an index array, as the set of its three indices
TriangleSet(indices, t) == {indices[3 * t + 1], indices[3 * t + 2], indices[3 * t + 3]}

\* the first 6 triangles are the fan: centre, rim vertex t, rim vertex (t + 1) mod 6
CapFan(indices) ==
    /\ Len(indices) >= 18
    /\ \A t \in 0 .. 5 : TriangleSet(indices, t) = {0, t + 1, ((t + 1) % 6) + 1}

\* C15: every mesh starts with the centre (center.x, vertices[0].y, center.z) at index
\* 0 and rim vertices 0..5 at indices 1..6, and its first 6 triangles are one per rim
\* edge: index 0 with the indices of rim vertices i and (i + 1) mod 6.
C15_CapTopology ==
    /\ \A k \in 1 .. Len(meshes) :
        /\ Len(meshes[k].positions) >= 7
        /\ meshes[k].positions[1] =
                << <<hexes[k].center[1], 0>>, hexes[k].vertices[1][2],
                   <<hexes[k].center[3][1], hexes[k].center[3][2], 0>> >>
        /\ \A i \in 1 .. 6 : meshes[k].positions[i + 1] = hexes[k].vertices[i]
        /\ CapFan(meshes[k].indices)
    /\ \A k \in 1 .. Len(rmeshes) :
        /\ Len(rmeshes[k].geometry.positions) >= 7
        /\ \A i \in 1 .. 6 : rmeshes[k].geometry.positions[i + 1] = hexGrid[k].vertices[i]
        /\ CapFan(rmeshes[k].geometry.indices)

\* the active generator finished a 2 x 2 grid; the last cap triangle of its last cell
\* joins the centre, rim vertex 5 and rim vertex 0
C15_Witness ==
    /\ pc = "done"
    /\ Len(meshes) = 4
    /\ TriangleSet(meshes[4].indices, 5) = {0, 6, 1}
    /\ meshes[4].positions[7] = hexes[4].vertices[6]

\* sign of a * sqrt(3) + b for integers a, b
SignRoot3(a, b) ==
    IF a >= 0 /\ b >= 0 THEN (IF a = 0 /\ b = 0 THEN 0 ELSE 1)
    ELSE IF a <= 0 /\ b <= 0 THEN -1
    ELSE IF a > 0 THEN (IF 3 * a * a > b * b THEN 1 ELSE IF 3 * a * a = b * b THEN 0 ELSE -1)
    ELSE (IF 3 * a * a > b * b THEN -1 ELSE IF 3 * a * a = b * b THEN 0 ELSE 1)

\* Sign of the y component of (pa - p0) x (pb - p0) in the unperturbed layout, for a
\* centre p0 stored in units of 1/scale of a rim position.  With u = pa - p0 and
\* w = pb - p0 the component is u.z * w.x - u.x * w.z.
NormalYSign(p0, pa, pb, scale) ==
    LET ux == scale * pa[1][1] - p0[1][1]
        wx == scale * pb[1][1] - p0[1][1]
        uzs == scale * pa[3][1] - p0[3][1]
        uzr == scale * pa[3][2] - p0[3][2]
        wzs == scale * pb[3][1] - p0[3][1]
        wzr == scale * pb[3][2] - p0[3][2]
    IN  SignRoot3(uzs * wx - ux * wzs, uzr * wx - ux * wzr)

\* every cap triangle of the geometry faces +Y
CapFacesUp(g, scale) ==
    \A t \in 0 .. 5 :
        NormalYSign(g.positions[g.indices[3 * t + 1] + 1],
                    g.positions[g.indices[3 * t + 2] + 1],
                    g.positions[g.indices[3 * t + 3] + 1], scale) = 1

\* C16: in every createHexGeometry variant each of the 6 cap triangles is indexed so
\* that its geometric normal points toward +Y, as its stored normal (0,1,0) says.
C16_CapWindingUp ==
    /\ \A k \in 1 .. Len(meshes) :
        /\ CapFacesUp(meshes[k], 1)
        /\ \A i \in 1 .. 7 : meshes[k].normals[i] = <<0, 1, 0>>
    /\ \A k \in 1 .. Len(rmeshes) :
        /\ CapFacesUp(rmeshes[k].geometry, 6)
        /\ \A i \in 1 .. 7 : rmeshes[k].geometry.normals[i] = <<0, 1, 0>>

\* the arrays of a geometry fit together
ArraysConsistent(g) ==
    /\ Len(g.normals) = Len(g.positions)
    /\ Len(g.uvs) = Len(g.positions)
    /\ Len(g.indices) % 3 = 0
    /\ \A i \in 1 .. Len(g.indices) : g.indices[i] >= 0 /\ g.indices[i] < Len(g.positions)

\* C17: on return from createHexGeometry, in every variant, there is one normal and
\* one uv per position, the number of indices is a multiple of 3 and every index
\* names a position, whichever skirts and corners were created or skipped.
C17_ArraysConsistent ==
    /\ \A k \in 1 .. Len(meshes) : ArraysConsistent(meshes[k])
    /\ \A k \in 1 .. Len(rmeshes) : ArraysConsistent(rmeshes[k].geometry)

\* a rendered grid with a cell that has a skirt and its corner, one with a skirt
\* without corner, and one with the cap only
C17_Witness ==
    /\ rpc = "done"
    /\ \E k \in 1 .. Len(rmeshes) : Len(rmeshes[k].geometry.positions) = 7
    /\ \E k \in 1 .. Len(rmeshes) : Len(rmeshes[k].geometry.positions) = 7 + 6
    /\ \E k \in 1 .. Len(rmeshes) : Len(rmeshes[k].geometry.positions) = 7 + 6 + 3

\* C18: the index that selects the material colour from biomeColors lies in
\* [0, biomeColors.length - 1] for every biomeIndex, negative or too large.
C18_ColorIndexInTable ==
    /\ \A k \in 1 .. Len(meshes) : meshes[k].colorIndex \in 0 .. (BiomeCount - 1)
    /\ \A k \in 1 .. Len(rmeshes) : rmeshes[k].material.colorIndex \in 0 .. (BiomeCount - 1)

(***************************************************************************)
(* Specification SpecConstruct: construction parameters at the boundary.   *)
(* cq holds the gridSize, hexSize and hexGap offered, cres what became of   *)
(* them: the object `new HexGenerator(...)` returned, or the params of     *)
(* HexGame after parseUrlParams.                                           *)
(***************************************************************************)
DefaultHexGap == 1

ConstructionInputs ==
    {[gridSize |-> n, hexSize |-> s, hexGap |-> p] :
        n \in EmptyGridSizes \cup GridSizes, s \in {-5, 0} \cup HexSizes,
        p \in {-1, DefaultHexSize} \cup HexGaps}

KInit ==
    /\ cq \in ConstructionInputs
    /\ cres = Null
    /\ GeneratorIdle
    /\ RendererIdle
    /\ OthersIdle

\* new HexGenerator(gridSize, hexSize, hexGap), which constructs its HexUtils: the
\* arguments are stored as they come, nothing is tested
ConstructGenerator ==
    /\ cq # Null
    /\ cres = Null
    /\ \E u1, u2, g1, g2 \in Seeds :
        cres' = [kind |-> "object",
                 value |-> HexGenerator_new(cq.gridSize, cq.hexSize, cq.hexGap,
                                            u1, u2, g1, g2)]
    /\ UNCHANGED cq
    /\ UNCHANGED <<genVars, rndVars, nseVars, dbg, app>>

\* HexGame.parseUrlParams with the three parameters in the URL: a value that fails
\* its test leaves the default in params
ParseUrlParams ==
    /\ cq # Null
    /\ cres = Null
    /\ cres' = [kind |-> "params",
                value |-> [gridSize |-> IF cq.gridSize > 0 THEN cq.gridSize
                                        ELSE DefaultGridSize,
                           hexSize |-> IF cq.hexSize > 0 THEN cq.hexSize
                                       ELSE DefaultHexSize,
                           hexGap |-> IF cq.hexGap >= 0 THEN cq.hexGap
                                      ELSE DefaultHexGap]]
    /\ UNCHANGED cq
    /\ UNCHANGED <<genVars, rndVars, nseVars, dbg, app>>

\* HexGame.init after parseUrlParams:
\* new HexGenerator(params.gridSize, params.hexSize, params.hexGap)
InitGenerator ==
    /\ cres # Null
    /\ cres.kind = "params"
    /\ \E u1, u2, g1, g2 \in Seeds :
        cres' = [kind |-> "hexGenerator",
                 value |-> HexGenerator_new(cres.value.gridSize, cres.value.hexSize,
                                            cres.value.hexGap, u1, u2, g1, g2)]
    /\ UNCHANGED cq
    /\ UNCHANGED <<genVars, rndVars, nseVars, dbg, app>>

KNext == ConstructGenerator \/ ParseUrlParams \/ InitGenerator

SpecConstruct == KInit /\ [][KNext]_vars

InvalidParameter == "InvalidParameter"
InvalidInput(q) == q.gridSize <= 0 \/ q.hexSize <= 0 \/ q.hexGap < 0

\* C19: construction with gridSize <= 0, hexSize <= 0 or hexGap < 0 ends in an
\* InvalidParameter error; no object is produced and no value is replaced.
C19_InvalidRejected ==
    (cres # Null /\ InvalidInput(cq)) => cres.kind = InvalidParameter

\* C20: for gridSize <= 0 the builders end normally with an empty grid: generateGrid
\* returns the empty list, renderGrid builds no hex and no mesh, and nothing throws.
C20_EmptyGrid ==
    /\ (pc # "idle" /\ gen.gridSize <= 0) =>
            /\ pc \in {"render", "done"}
            /\ nextCell = 0 /\ hexes = <<>> /\ meshes = <<>>
    /\ (rpc # "idle" /\ rgen.generator.gridSize <= 0) =>
            /\ rpc \in {"render", "done"}
            /\ rnext = 0 /\ hexGrid = <<>> /\ rmeshes = <<>>

C20_Witness ==
    \/ pc = "done" /\ gen.gridSize = -1 /\ meshes = <<>>
    \/ rpc = "done" /\ rgen.generator.gridSize = 0 /\ hexGrid = <<>> /\ rmeshes = <<>>

(***************************************************************************)
(* Specification SpecNoise: one PerlinNoise instance and the get calls     *)
(* made on it.                                                             *)
(*                                                                         *)
(* Numbers.  Sample coordinates are integers in quarters of a unit, so the *)
(* lattice cell of x is x \div 4 and the fraction inside it (x % 4)/4.  A  *)
(* gradient is a unit vector with rational components, held in fifths.     *)
(* smootherstep of k/4 is a multiple of 1/1024, so every value get forms   *)
(* is an exact multiple of 1/NoiseDenominator and is held as its numerator.*)
(***************************************************************************)
MaxCalls == 3

\* quarters per unit of a sample coordinate
NoiseQuarter == 4
\* fifths per unit of a gradient component
GradientFifth == 5
\* denominator of smootherstep(k/4) = k^3 (6k^2 - 60k + 160) / 1024
StepDenominator == 1024
\* denominator of the value get returns: 2 (the * 0.5) * 20 (a dot product) * 1024^2
NoiseDenominator == 2 * (NoiseQuarter * GradientFifth) * StepDenominator * StepDenominator

\* sample values of the seed and of the coordinates get is called with (quarters):
\* negative and positive, on a lattice point and at each fraction inside a cell
NoiseSeeds == 0 .. 2
NoiseCoordsX == {-5, -2, 0, 5}
NoiseCoordsY == {-2, 0, 3}

\* (cos(angle), sin(angle)) for the angles whose cosine and sine are rational with
\* denominator 5, in increasing angle
UnitGradients ==
    << <<5, 0>>, <<4, 3>>, <<3, 4>>, <<0, 5>>, <<-3, 4>>, <<-4, 3>>,
       <<-5, 0>>, <<-4, -3>>, <<-3, -4>>, <<0, -5>>, <<3, -4>>, <<4, -3>> >>

\* PerlinNoise._random: fract(sin(x * 12.9898 + y * 78.233 + seed) * 43758.5453123), a
\* fixed scrambling of its three inputs; here the slot of [0,1) the value falls in
PerlinNoise_random(seed, x, y) ==
    (((x * 13 + y * 78 + seed) * (x * 13 + y * 78 + seed) + 7 * x + 3 * y + seed) % 97)
        % Len(UnitGradients)

\* the key strings ix + "," + iy and x + "," + y: equal exactly when both numbers are
PerlinNoise_keyNoY(x, y) == <<x, 0>>

PerlinNoise_key(x, y) == <<x, y>>

\* PerlinNoise.getRandomGradient: the gradients cache after the call; the gradient
\* returned is its entry at the key
PerlinNoise_getRandomGradient(seed, gradients, ix, iy) ==
    IF PerlinNoise_key(ix, iy) \in DOMAIN gradients
    THEN gradients
    ELSE [k \in DOMAIN gradients \cup {PerlinNoise_key(ix, iy)} |->
            IF k \in DOMAIN gradients THEN gradients[k]
            ELSE UnitGradients[PerlinNoise_random(seed, ix, iy) + 1]]

\* numerator of smootherstep(u/4) over StepDenominator
smootherstep(u) == u * u * u * (6 * u * u - 60 * u + 160)

\* lerp(a, b, t) with t = tn/StepDenominator; the result has StepDenominator times
\* the denominator of a and b
lerp(a, b, tn) == a * StepDenominator + tn * (b - a)

\* PerlinNoise.dotGridGradient with the gradient found in the cache: numerator over 20
dotGridGradient(gradients, ix, iy, x, y) ==
    (x - NoiseQuarter * ix) * gradients[PerlinNoise_key(ix, iy)][1]
        + (y - NoiseQuarter * iy) * gradients[PerlinNoise_key(ix, iy)][2]

\* the four getRandomGradient calls of one get, in the order the code makes them
PerlinNoise_gradientsAfter(seed, gradients, x0, y0) ==
    PerlinNoise_getRandomGradient(seed,
        PerlinNoise_getRandomGradient(seed,
            PerlinNoise_getRandomGradient(seed,
                PerlinNoise_getRandomGradient(seed, gradients, x0, y0),
                x0 + 1, y0),
            x0, y0 + 1),
        x0 + 1, y0 + 1)

\* the interpolation without the final * 0.5 + 0.5
PerlinNoise_interpolate_raw(g, x0, y0, x, y, sx, sy) ==
    2 * lerp(lerp(dotGridGradient(g, x0, y0, x, y),
                  dotGridGradient(g, x0 + 1, y0, x, y), sx),
             lerp(dotGridGradient(g, x0, y0 + 1, x, y),
                  dotGridGradient(g, x0 + 1, y0 + 1, x, y), sx),
             sy)

\* lines 85-94 of get: lerp(ix0, ix1, sy) * 0.5 + 0.5, numerator over NoiseDenominator
PerlinNoise_interpolate(g, x0, y0, x, y, sx, sy) ==
    lerp(lerp(dotGridGradient(g, x0, y0, x, y),
              dotGridGradient(g, x0 + 1, y0, x, y), sx),
         lerp(dotGridGradient(g, x0, y0 + 1, x, y),
              dotGridGradient(g, x0 + 1, y0 + 1, x, y), sx),
         sy) + NoiseDenominator \div 2

\* lines 74-94 of get on a cache miss: the value computed
PerlinNoise_compute(seed, gradients, x, y) ==
    PerlinNoise_interpolate(
        PerlinNoise_gradientsAfter(seed, gradients, x \div NoiseQuarter,
                                   y \div NoiseQuarter),
        x \div NoiseQuarter, y \div NoiseQuarter, x, y,
        smootherstep(x % NoiseQuarter), smootherstep(y % NoiseQuarter))

\* `if (this.memory[key])`: the entry exists and is not 0
PerlinNoise_cached(memory, key) == key \in DOMAIN memory /\ memory[key] # 0

\* PerlinNoise.get: the instance after the call and the value returned
PerlinNoise_call(n, x, y) ==
    IF PerlinNoise_cached(n.memory, PerlinNoise_key(x, y))
    THEN [instance |-> n, result |-> n.memory[PerlinNoise_key(x, y)]]
    ELSE [instance |->
            [seed |-> n.seed,
             gradients |-> PerlinNoise_gradientsAfter(n.seed, n.gradients,
                                x \div NoiseQuarter, y \div NoiseQuarter),
             memory |-> [k \in DOMAIN n.memory \cup {PerlinNoise_key(x, y)} |->
                            IF k = PerlinNoise_key(x, y)
                            THEN PerlinNoise_compute(n.seed, n.gradients, x, y)
                            ELSE n.memory[k]]],
          result |-> PerlinNoise_compute(n.seed, n.gradients, x, y)]

\* new PerlinNoise(seed)
PerlinNoise_new(seed) == [seed |-> seed, gradients |-> <<>>, memory |-> <<>>]

NInit ==
    /\ noise \in {PerlinNoise_new(seed) : seed \in NoiseSeeds}
    /\ ncalls = <<>>
    /\ GeneratorIdle
    /\ RendererIdle
    /\ CoordsIdle
    /\ DebuggerIdle
    /\ AppIdle

CallGet ==
    /\ noise # Null
    /\ Len(ncalls) < MaxCalls
    /\ \E x \in NoiseCoordsX, y \in NoiseCoordsY :
        /\ noise' = PerlinNoise_call(noise, x, y).instance
        /\ ncalls' = Append(ncalls, [x |-> x, y |-> y,
                                     result |-> PerlinNoise_call(noise, x, y).result])
    /\ UNCHANGED <<genVars, rndVars, crdVars, dbg, app>>

NNext == CallGet

SpecNoise == NInit /\ [][NNext]_vars

\* the value a fresh instance with the same seed computes for the key
UncachedValue(seed, x, y) == PerlinNoise_compute(seed, <<>>, x, y)

\* C21: every value get returned, whatever calls came before it, is the value the
\* un-cached computation gives for those coordinates, and so is every entry of the
\* memory cache; two calls with the same coordinates returned the same value.
C21_MemoizationTransparent ==
    noise # Null =>
        /\ \A i \in 1 .. Len(ncalls) :
            ncalls[i].result = UncachedValue(noise.seed, ncalls[i].x, ncalls[i].y)
        /\ \A k \in DOMAIN noise.memory :
            noise.memory[k] = UncachedValue(noise.seed, k[1], k[2])
        /\ \A i, j \in 1 .. Len(ncalls) :
            (ncalls[i].x = ncalls[j].x /\ ncalls[i].y = ncalls[j].y)
                => ncalls[i].result = ncalls[j].result

\* a cache hit after a call with other coordinates in between
C21_Witness ==
    /\ Len(ncalls) = 3
    /\ ncalls[1].x = ncalls[3].x /\ ncalls[1].y = ncalls[3].y
    /\ ncalls[2].x = ncalls[1].x /\ ncalls[2].y # ncalls[1].y
    /\ ncalls[1].result # ncalls[2].result

\* C22: every value get returns lies in [0, 1].
InUnitInterval(v) == v >= 0 /\ v <= NoiseDenominator

\* the gradients cache of the cell at the origin holding the given unit gradients
CellGradients(a, b, c, d) ==
    (PerlinNoise_key(0, 0) :> UnitGradients[a]) @@ (PerlinNoise_key(1, 0) :> UnitGradients[b]) @@
    (PerlinNoise_key(0, 1) :> UnitGradients[c]) @@ (PerlinNoise_key(1, 1) :> UnitGradients[d])

\* whatever gradients a seed gives the four corners of a cell, the value at every
\* sample point of the cell is in [0, 1]
EveryGradientInRange ==
    \A a, b, c, d \in 1 .. Len(UnitGradients) :
        \A u, v \in 0 .. (NoiseQuarter - 1) :
            InUnitInterval(PerlinNoise_interpolate(CellGradients(a, b, c, d), 0, 0, u, v,
                                                  smootherstep(u), smootherstep(v)))

C22_NoiseRange ==
    /\ \A i \in 1 .. Len(ncalls) : InUnitInterval(ncalls[i].result)
    /\ (noise # Null /\ ncalls = <<>>) => EveryGradientInRange

\* values above and below one half have been returned
C22_Witness ==
    /\ \E i \in 1 .. Len(ncalls) : 2 * ncalls[i].result > NoiseDenominator
    /\ \E i \in 1 .. Len(ncalls) : 2 * ncalls[i].result < NoiseDenominator

(***************************************************************************)
(* Placement of the neighbours HexUtils.getNeighbor computes               *)
(* (specification Spec).                                                   *)
(***************************************************************************)
\* half row spacings from a cell's centre to its neighbour's centre in a direction
HalfRowsToward(d) ==
    CASE d = "N" -> -2
      [] d = "NE" -> -1
      [] d = "SE" -> 1
      [] d = "S" -> 2
      [] d = "SW" -> 1
      [] d = "NW" -> -1

\* a z coordinate moved by k half row spacings
ZMovedBy(hu, z, k) == <<z[1] + k * hu.effectiveSize, z[2] + k * hu.hexGap>>

\* C23: for every cell of the grid and every direction d, the centre getNeighbor
\* computes for the d-neighbour lies toward d: half a row spacing further in z for
\* SE and SW, a full one for S, and as much nearer for NE, NW and N.
C23_NeighborTowardDirection ==
    \A i \in 1 .. Len(hexes) :
        \A d \in Directions :
            HexUtils_getNeighbor(gen.hexUtils, hexes[i], d).center[3]
                = ZMovedBy(gen.hexUtils, hexes[i].center[3], HalfRowsToward(d))

(***************************************************************************)
(* Geometry of the lattice the stitcher addresses (specification           *)
(* SpecCoords): rim vertices before perturbation, with hexGap = 0.         *)
(***************************************************************************)
\* the x and z getHexVertex forms for rim vertex i of the cell at coords, before
\* perturbXZ, with hexSize = effectiveSize and hexGap = 0
LatticeVertex(effectiveSize, coords, i) ==
    <<CenterX(effectiveSize, 0, coords[1]) + effectiveSize * CosHalf[i + 1],
      <<CenterZ(effectiveSize, 0, coords[1], coords[2])[1]
            + effectiveSize * SinRoot[i + 1],
        CenterZ(effectiveSize, 0, coords[1], coords[2])[2]>> >>

\* the four vertex identities of one skirt direction d of the cell at coords, whose
\* d-neighbour is at n
SharedCorners(effectiveSize, coords, n, d) ==
    LET o == oppositeDirection[d]
        cw == clockwiseDirection[d]
        cwn == HexUtils_getNeighborCoords(coords, cw)
        v1 == LatticeVertex(effectiveSize, coords, edgeVertexMap[d][1])
        v2 == LatticeVertex(effectiveSize, coords, edgeVertexMap[d][2])
        nv1 == LatticeVertex(effectiveSize, n, edgeVertexMap[o][1])
        nv2 == LatticeVertex(effectiveSize, n, edgeVertexMap[o][2])
        cwv2 == LatticeVertex(effectiveSize, cwn, edgeVertexMap[oppositeDirection[cw]][2])
    IN  v2 = nv1 /\ v2 = cwv2 /\ v1 = nv2

\* C24: with hexGap = 0 and no perturbation, for a cell whose six neighbours are
\* inside the grid and d in SE, S, SW: v2 of the cell, nv1 of its d-neighbour and
\* cwv2 of its clockwise(d)-neighbour are one point, and v1 of the cell is nv2 of
\* the d-neighbour.
C24_SharedCorners ==
    (/\ cres # Null
     /\ cq.direction \in {skirtDirections[k] : k \in 1 .. 3}
     /\ AllNeighborsInside(cq)) =>
        \A e \in HexSizes : SharedCorners(e, cq.coords, cres.hexUtils, cq.direction)

C24_Witness ==
    /\ cres # Null
    /\ cq.direction = "SW"
    /\ cq.coords[1] % 2 = 0
    /\ AllNeighborsInside(cq)
    /\ SharedCorners(DefaultHexSize, cq.coords, cres.hexUtils, cq.direction)

\* C25: from a cell whose six neighbours are inside the grid, the d-neighbour and
\* the clockwise(d)-neighbour are neighbours of each other: stepping from the
\* d-neighbour in direction clockwise(clockwise(d)) arrives at the clockwise(d)-neighbour.
C25_CornerCellsAdjacent ==
    (cres # Null /\ cq.direction \in Directions /\ AllNeighborsInside(cq)) =>
        HexUtils_getNeighborCoords(cres.hexUtils,
                                   clockwiseDirection[clockwiseDirection[cq.direction]])
            = HexUtils_getNeighborCoords(cq.coords, clockwiseDirection[cq.direction])

C25_Witness ==
    /\ cres # Null
    /\ cq.direction = "S"
    /\ cq.coords[1] % 2 = 1
    /\ AllNeighborsInside(cq)
    /\ HexUtils_getNeighborCoords(cres.hexUtils, "NW")
        = HexUtils_getNeighborCoords(cq.coords, "SW")

C27_EffectiveSizePositive ==
    (cres # Null /\ cres.kind = "hexGenerator") =>
        /\ cres.value.effectiveSize > 0
        /\ cres.value.hexUtils.effectiveSize > 0

(***************************************************************************)
(* Specification SpecDebugger: a HexDebugger over a rendered grid.         *)
(* dbg is [hexGrid, materials, highlightedNeighbors, selectedHex, last]:   *)
(* materials[k] is the material mesh k of hexRenderer.meshes carries now,  *)
(* selectedHex the index of the selected hex (0 for null), last the last   *)
(* operation that ran.  A material is [color, mesh, clones]: the material  *)
(* created for a mesh has clones = 0, and clone() adds one.                *)
(***************************************************************************)
\* grid sizes of the debugged grids: the small ones, and one above the default grid
\* size of the HexGenerator that handleHexClick constructs for its lookups
DebugGridSizes == (1 .. (MaxGrid + 1)) \cup {DefaultGridSize + 1}

\* columns and rows a click lands on: the first two, the middle and the last two
ClickLines(n) == {0, 1, n \div 2, n - 2, n - 1} \cap (0 .. (n - 1))

\* the meshes of hexRenderer.meshes a click lands on (the last hex of the grid is at
\* column gridSize - 1)
ClickTargets(grid) ==
    {k \in 1 .. Len(grid) :
        /\ grid[k].gridCoords[1] \in ClickLines(grid[Len(grid)].gridCoords[1] + 1)
        /\ grid[k].gridCoords[2] \in ClickLines(grid[Len(grid)].gridCoords[1] + 1)}

\* what handleHexClick reads of the hexes generateGrid returned: gridCoords, in the
\* order of its loops
DebugGrid(n) ==
    [k \in 1 .. (n * n) |-> [gridCoords |-> <<(k - 1) % n, (k - 1) \div n>>]]

\* the material renderGrid gave mesh k
OriginalMaterial(k) == [color |-> "biome", mesh |-> k, clones |-> 0]

\* material.clone() followed by color.set
CloneWithColor(material, color) ==
    [color |-> color, mesh |-> material.mesh, clones |-> material.clones + 1]

\* Array.prototype.findIndex on gridCoords, 1-based: 0 stands for -1
HexGrid_findIndex(grid, coords) ==
    IF \E i \in 1 .. Len(grid) : grid[i].gridCoords = coords
    THEN CHOOSE i \in 1 .. Len(grid) :
            /\ grid[i].gridCoords = coords
            /\ \A j \in 1 .. (i - 1) : grid[j].gridCoords # coords
    ELSE 0

\* new HexDebugger(scene, hexGrid, hexRenderer, camera)
HexDebugger_new(n) ==
    [hexGrid |-> DebugGrid(n),
     materials |-> [k \in 1 .. (n * n) |-> OriginalMaterial(k)],
     highlightedNeighbors |-> <<>>,
     selectedHex |-> 0,
     last |-> "new"]

\* the forEach of clearHighlights: entries are restored in order, so a mesh ends
\* with the material of its last entry
RestoredMaterials(materials, highlighted) ==
    [k \in DOMAIN materials |->
        IF \E i \in 1 .. Len(highlighted) : highlighted[i].mesh = k
        THEN highlighted[CHOOSE i \in 1 .. Len(highlighted) :
                            /\ highlighted[i].mesh = k
                            /\ \A j \in (i + 1) .. Len(highlighted) :
                                    highlighted[j].mesh # k].material
        ELSE materials[k]]

\* HexDebugger.clearHighlights
HexDebugger_clearHighlights(d) ==
    [d EXCEPT !.materials = RestoredMaterials(d.materials, d.highlightedNeighbors),
              !.highlightedNeighbors = <<>>,
              !.last = "clear"]

\* the selected hex of handleHexClick: yellow clone, original kept in the list
HexDebugger_select(d, hexIndex) ==
    [d EXCEPT !.selectedHex = hexIndex,
              !.materials[hexIndex] = CloneWithColor(d.materials[hexIndex], "yellow"),
              !.highlightedNeighbors =
                    Append(d.highlightedNeighbors,
                           [mesh |-> hexIndex, material |-> d.materials[hexIndex]]),
              !.last = "click"]

\* one pass of the directions.forEach of handleHexClick, for a neighbour index found
HexDebugger_highlightAt(d, neighborIndex) ==
    IF neighborIndex = 0 THEN d
    ELSE [d EXCEPT !.materials[neighborIndex] =
                        CloneWithColor(d.materials[neighborIndex], "cyan"),
                   !.highlightedNeighbors =
                        Append(d.highlightedNeighbors,
                               [mesh |-> neighborIndex,
                                material |-> d.materials[neighborIndex]])]

\* the neighbour lookup of one pass: getNeighbor of a default-constructed
\* HexGenerator, then findIndex of its gridCoords
HexDebugger_neighborIndex(d, hexIndex, direction) ==
    IF HexGenerator_getNeighbor(DefaultGridSize, d.hexGrid[hexIndex], direction,
                                d.hexGrid) = Null
    THEN 0
    ELSE HexGrid_findIndex(d.hexGrid,
            HexGenerator_getNeighbor(DefaultGridSize, d.hexGrid[hexIndex], direction,
                                     d.hexGrid).gridCoords)

\* the first k passes of the directions.forEach
RECURSIVE HexDebugger_highlightNeighbors(_, _, _)
HexDebugger_highlightNeighbors(d, hexIndex, k) ==
    IF k = 0 THEN d
    ELSE HexDebugger_highlightAt(
            HexDebugger_highlightNeighbors(d, hexIndex, k - 1),
            HexDebugger_neighborIndex(d, hexIndex, directions[k]))

\* HexDebugger.handleHexClick on mesh hexIndex of hexRenderer.meshes
HexDebugger_handleHexClick(d, hexIndex) ==
    HexDebugger_highlightNeighbors(
        HexDebugger_select(HexDebugger_clearHighlights(d), hexIndex),
        hexIndex, Len(directions))

DInit ==
    /\ dbg \in {HexDebugger_new(n) : n \in DebugGridSizes}
    /\ GeneratorIdle
    /\ RendererIdle
    /\ CoordsIdle
    /\ NoiseIdle
    /\ AppIdle

HandleHexClick ==
    /\ dbg # Null
    /\ \E k \in ClickTargets(dbg.hexGrid) :
        dbg' = HexDebugger_handleHexClick(dbg, k)
    /\ UNCHANGED <<genVars, rndVars, crdVars, nseVars, app>>

ClearHighlights ==
    /\ dbg # Null
    /\ dbg' = HexDebugger_clearHighlights(dbg)
    /\ UNCHANGED <<genVars, rndVars, crdVars, nseVars, app>>

DNext == HandleHexClick \/ ClearHighlights

SpecDebugger == DInit /\ [][DNext]_vars

\* the meshes that are to carry a highlight after a click on mesh k: the hex and
\* its neighbours inside the grid
ExpectedHighlights(grid, k) ==
    {k} \cup ({HexGrid_findIndex(grid, TableStep(grid[k].gridCoords, d)) : d \in Directions}
                \ {0})

\* C28: after any sequence of clicks, the last clicked hex and its neighbours inside
\* the grid carry a highlight (a clone of their original material) and every other
\* mesh carries its original material; after clearHighlights every mesh carries its
\* original material and highlightedNeighbors is empty.
C28_HighlightRestoration ==
    dbg # Null =>
        /\ dbg.last = "click" =>
            \A k \in 1 .. Len(dbg.materials) :
                IF k \in ExpectedHighlights(dbg.hexGrid, dbg.selectedHex)
                THEN /\ dbg.materials[k].color \in {"yellow", "cyan"}
                     /\ dbg.materials[k].clones = 1
                ELSE dbg.materials[k] = OriginalMaterial(k)
        /\ dbg.last = "clear" =>
            /\ \A k \in 1 .. Len(dbg.materials) : dbg.materials[k] = OriginalMaterial(k)
            /\ dbg.highlightedNeighbors = <<>>

\* the same on grids no larger than the default grid size
C28_UpToDefaultSize ==
    (dbg # Null /\ Len(dbg.hexGrid) <= DefaultGridSize * DefaultGridSize)
        => C28_HighlightRestoration

(***************************************************************************)
(* Specification SpecApp: HexGame.init and HexGame.updateGrid.             *)
(* app is [params, scene, hexGenerator, hexMeshes, pc, updated]: scene is   *)
(* the set of objects added to the THREE.Scene, hexGenerator the arguments  *)
(* the current generator was constructed with, hexMeshes what the field     *)
(* holds (Null for undefined), pc "constructed" before init has run and     *)
(* "running" after, updated how the last updateGrid call ended.  A          *)
(* THREE.Group is [type, params, children]: the parameters of the grid it   *)
(* holds and the number of meshes renderGrid added to it.                   *)
(***************************************************************************)
\* the params parseUrlParams can leave behind, and the arguments of updateGrid: any
\* subset of the three parameters
AppParams ==
    {[gridSize |-> n, hexSize |-> s, hexGap |-> p] :
        n \in GridSizes, s \in HexSizes, p \in HexGaps}
UpdateParams ==
    AppParams
        \cup {[gridSize |-> n] : n \in GridSizes}
        \cup {[hexSize |-> s, hexGap |-> p] : s \in HexSizes, p \in HexGaps}

\* the GridHelper setupScene adds
GridHelper == [type |-> "GridHelper", params |-> Null, children |-> 0]

\* what HexGenerator.renderGrid(scene) returns: the group it added to the scene,
\* holding one mesh per cell
HexGenerator_renderGrid(params) ==
    [type |-> "Group", params |-> params, children |-> LoopCount(params.gridSize)]

\* { ...this.params, ...params }
MergeParams(old, new) ==
    [f \in DOMAIN old |-> IF f \in DOMAIN new THEN new[f] ELSE old[f]]

\* methods of the HexGenerator class and of a THREE.Group that the calls of HexGame
\* look up
HexGeneratorMethods == {"renderGrid", "createHexMesh", "createHexGeometry"}
HasForEach(object) == object.type = "Array"

\* HexGame.init: the generator is constructed, renderGrid adds its group to the scene
\* and the group is stored in hexMeshes
HexGame_init(a) ==
    [a EXCEPT !.hexGenerator = a.params,
              !.scene = a.scene \cup {HexGenerator_renderGrid(a.params)},
              !.hexMeshes = HexGenerator_renderGrid(a.params),
              !.pc = "running"]

\* the try block of updateGrid: this.hexGenerator.generateHexGrid(this.scene)
HexGame_regenerate(a) ==
    IF "generateHexGrid" \in HexGeneratorMethods
    THEN [a EXCEPT !.scene = a.scene \cup {HexGenerator_renderGrid(a.params)},
                   !.hexMeshes = HexGenerator_renderGrid(a.params),
                   !.updated = "ok"]
    ELSE [a EXCEPT !.updated = "caught TypeError"]

\* HexGame.updateGrid(params)
HexGame_updateGrid(a, params) ==
    IF a.hexMeshes # Null /\ ~HasForEach(a.hexMeshes)
    THEN \* this.hexMeshes.forEach is not a function: thrown outside the try block
         [a EXCEPT !.params = MergeParams(a.params, params),
                   !.updated = "threw TypeError"]
    ELSE \* scene.remove(mesh) for each mesh: the meshes are children of the group,
         \* none is a child of the scene itself, so the scene keeps its objects
         HexGame_regenerate(
            [a EXCEPT !.params = MergeParams(a.params, params),
                      !.hexGenerator = MergeParams(a.params, params)])

\* new HexGame() up to the call of init
HexGame_new(params) ==
    [params |-> params, scene |-> {GridHelper}, hexGenerator |-> Null,
     hexMeshes |-> Null, pc |-> "constructed", updated |-> "none"]

AInit ==
    /\ app \in {HexGame_new(p) : p \in AppParams}
    /\ GeneratorIdle
    /\ RendererIdle
    /\ CoordsIdle
    /\ NoiseIdle
    /\ DebuggerIdle

AppInitGrid ==
    /\ app # Null
    /\ app.pc = "constructed"
    /\ app' = HexGame_init(app)
    /\ UNCHANGED <<genVars, rndVars, crdVars, nseVars, dbg>>

AppUpdateGrid ==
    /\ app # Null
    /\ app.pc = "running"
    /\ \E params \in UpdateParams : app' = HexGame_updateGrid(app, params)
    /\ UNCHANGED <<genVars, rndVars, crdVars, nseVars, dbg>>

ANext == AppInitGrid \/ AppUpdateGrid

SpecApp == AInit /\ [][ANext]_vars

\* C29: after init, an updateGrid call ends without an error, leaves no object of a
\* grid built from other parameters in the scene, and leaves hexMeshes holding the
\* meshes of a grid generated from the updated parameters.
C29_WholesaleRegeneration ==
    (app # Null /\ app.updated # "none") =>
        /\ app.updated = "ok"
        /\ \A o \in app.scene : o.type = "Group" => o.params = app.params
        /\ app.hexMeshes # Null /\ app.hexMeshes.params = app.params

====
